---- MODULE Spec2Model ----
(***************************************************************************)
(* Ray-casting renderer of Damonenheil: tile grid (Level), ray caster      *)
(* (Ray.cast, DDA), depth buffer (zBuffer), camera (Player) and billboard  *)
(* sprites (Sprite), with the frame loop (mainGameLoop) that drives them.  *)
(*                                                                         *)
(* Numbers.  A JavaScript number is modelled as a pair <<n, d>>: the       *)
(* rational n/d in lowest terms when d > 0, and the IEEE specials          *)
(* Infinity = <<1,0>>, -Infinity = <<-1,0>>, NaN = <<0,0>>.  Arithmetic is *)
(* exact on rationals and follows IEEE-754 on the specials (x/0, 0/0,      *)
(* Inf-Inf, 0*Inf, comparisons with NaN).  Rounding of doubles is not      *)
(* modelled, with one exception: <<1,-1>> and <<-1,-1>> are a positive and *)
(* a negative "tiny" double (such as Math.tan(Math.PI) = -1.2e-16), a      *)
(* nonzero number that is absorbed when added to a number of ordinary      *)
(* size.  Signed zeros are not modelled.                                   *)
(*                                                                         *)
(* Angles.  An angle is a number of lattice units, TwoPi units to the turn; *)
(* the angles of the game are whole numbers of units.  Math.cos, Math.sin  *)
(* and Math.tan are tables that give every lattice angle a rational point  *)
(* of the unit circle close to the true direction (denominator 65), so     *)
(* that distances along a ray are rational.  The rounding error that       *)
(* additions of doubles accumulate in an angle is not modelled; the tiny   *)
(* numbers stand for its results where a function is handed one.           *)
(***************************************************************************)
EXTENDS Integers, Sequences, FiniteSets, TLC

\* ------------------------------------------------------------------ numbers

Abs(n) == IF n < 0 THEN -n ELSE n

Sgn(n) == IF n < 0 THEN -1 ELSE IF n > 0 THEN 1 ELSE 0

RECURSIVE GCD(_, _)
GCD(a, b) == IF b = 0 THEN a ELSE GCD(b, a % b)

LCM(a, b) == (a \div GCD(a, b)) * b

NaN == <<0, 0>>

PosInf == <<1, 0>>

NegInf == <<-1, 0>>

IsNaN(a) == a[1] = 0 /\ a[2] = 0

IsFinite(a) == a[2] > 0

IsInf(a) == a[2] = 0 /\ a[1] # 0

IsTiny(a) == a[2] = -1

PosTiny == <<1, -1>>

NegTiny == <<-1, -1>>

\* the rational n/d (d > 0) in lowest terms
Q(n, d) == LET g == GCD(Abs(n), d) IN <<n \div g, d \div g>>

\* the integer n as a number
I(n) == <<n, 1>>

Neg(a) == <<-a[1], a[2]>>

Add(a, b) ==
    IF IsNaN(a) \/ IsNaN(b) THEN NaN
    ELSE IF IsInf(a) /\ IsInf(b) THEN (IF a[1] = b[1] THEN a ELSE NaN)
    ELSE IF IsInf(a) THEN a
    ELSE IF IsInf(b) THEN b
    ELSE IF IsTiny(a) /\ IsTiny(b) THEN (IF a[1] = b[1] THEN a ELSE I(0))
    ELSE IF IsTiny(a) THEN (IF b[1] = 0 THEN a ELSE b)
    ELSE IF IsTiny(b) THEN (IF a[1] = 0 THEN b ELSE a)
    ELSE LET l == LCM(a[2], b[2])
         IN  Q(a[1] * (l \div a[2]) + b[1] * (l \div b[2]), l)

Sub(a, b) == Add(a, Neg(b))

Mul(a, b) ==
    IF IsNaN(a) \/ IsNaN(b) THEN NaN
    ELSE IF IsInf(a) \/ IsInf(b)
         THEN (IF a[1] = 0 \/ b[1] = 0 THEN NaN
               ELSE <<Sgn(a[1]) * Sgn(b[1]), 0>>)
    ELSE IF IsTiny(a) \/ IsTiny(b)
         THEN (IF a[1] = 0 \/ b[1] = 0 THEN I(0)
               ELSE <<Sgn(a[1]) * Sgn(b[1]), -1>>)
    ELSE LET g1 == GCD(Abs(a[1]), b[2])
             g2 == GCD(Abs(b[1]), a[2])
         IN  Q((a[1] \div g1) * (b[1] \div g2), (a[2] \div g2) * (b[2] \div g1))

Div(a, b) ==
    IF IsNaN(a) \/ IsNaN(b) THEN NaN
    ELSE IF IsInf(a) /\ IsInf(b) THEN NaN
    ELSE IF IsInf(a) THEN <<a[1] * (IF b[1] < 0 THEN -1 ELSE 1), 0>>
    ELSE IF IsInf(b) THEN I(0)
    ELSE IF b[1] = 0 THEN (IF a[1] = 0 THEN NaN ELSE <<Sgn(a[1]), 0>>)
    ELSE IF IsTiny(a) /\ IsTiny(b) THEN NaN
    ELSE IF IsTiny(b) THEN (IF a[1] = 0 THEN I(0) ELSE <<Sgn(a[1]) * b[1], 0>>)
    ELSE IF IsTiny(a) THEN <<a[1] * Sgn(b[1]), -1>>
    ELSE Mul(a, <<Sgn(b[1]) * b[2], Abs(b[1])>>)

\* Math.floor
Floor(a) ==
    IF IsFinite(a) THEN I(a[1] \div a[2])
    ELSE IF IsTiny(a) THEN (IF a[1] < 0 THEN I(-1) ELSE I(0))
    ELSE a

\* a < b on two finite rationals, without cross-multiplying large numbers
RECURSIVE LtFin(_, _)
LtFin(a, b) ==
    LET qa == a[1] \div a[2]
        qb == b[1] \div b[2]
        ra == a[1] % a[2]
        rb == b[1] % b[2]
    IN  IF qa # qb THEN qa < qb
        ELSE IF rb = 0 THEN FALSE
        ELSE IF ra = 0 THEN TRUE
        ELSE LtFin(<<b[2], rb>>, <<a[2], ra>>)

\* the JavaScript comparisons: every comparison with NaN is false
Lt(a, b) ==
    IF IsNaN(a) \/ IsNaN(b) THEN FALSE
    ELSE IF IsInf(a) /\ IsInf(b) THEN a[1] < b[1]
    ELSE IF IsInf(a) THEN a[1] < 0
    ELSE IF IsInf(b) THEN b[1] > 0
    ELSE IF IsTiny(a) /\ IsTiny(b) THEN a[1] < b[1]
    ELSE IF IsTiny(a) THEN (IF b[1] = 0 THEN a[1] < 0 ELSE b[1] > 0)
    ELSE IF IsTiny(b) THEN (IF a[1] = 0 THEN b[1] > 0 ELSE a[1] < 0)
    ELSE LtFin(a, b)

Gt(a, b) == Lt(b, a)

\* a === b
Eq(a, b) == ~IsNaN(a) /\ ~IsNaN(b) /\ a = b

Le(a, b) == Lt(a, b) \/ Eq(a, b)

Ge(a, b) == Le(b, a)

\* Math.max and Math.min
Max(a, b) == IF IsNaN(a) \/ IsNaN(b) THEN NaN ELSE IF Lt(a, b) THEN b ELSE a

Min(a, b) == IF IsNaN(a) \/ IsNaN(b) THEN NaN ELSE IF Lt(b, a) THEN b ELSE a

\* the JavaScript remainder a % b: the sign of the dividend, NaN when a is
\* not finite or b is zero
Rem(a, b) ==
    IF IsNaN(a) \/ IsNaN(b) \/ IsInf(a) THEN NaN
    ELSE IF IsInf(b) THEN a
    ELSE IF b[1] = 0 \/ IsTiny(b) THEN NaN
    ELSE IF IsTiny(a) THEN a
    ELSE LET q == Div(a, b)
             t == IF q[1] >= 0 THEN q[1] \div q[2] ELSE -((-q[1]) \div q[2])
         IN  Sub(a, Mul(b, I(t)))

\* largest r with r * r <= n, for 0 <= n, by bisection on lo..hi
RECURSIVE ISqrtIn(_, _, _)
ISqrtIn(n, lo, hi) ==
    IF lo >= hi THEN lo
    ELSE LET mid == (lo + hi + 1) \div 2
         IN  IF mid * mid <= n THEN ISqrtIn(n, mid, hi) ELSE ISqrtIn(n, lo, mid - 1)

ISqrt(n) == ISqrtIn(n, 0, 46340)

\* the grid on which an irrational square root is rounded
SqrtGrid == 64

\* Math.sqrt(dx^2 + dy^2): exact when the root is rational, which it is for
\* every point on a ray of a lattice direction; otherwise rounded down to
\* the grid of 1/SqrtGrid (or to an integer multiple when the operands are
\* large) as a double rounds it to its own grid
Hypot(dx, dy) ==
    IF IsNaN(dx) \/ IsNaN(dy) THEN NaN
    ELSE IF IsInf(dx) \/ IsInf(dy) THEN PosInf
    ELSE IF IsTiny(dx) /\ IsTiny(dy) THEN PosTiny
    ELSE IF IsTiny(dx) THEN <<Abs(dy[1]), dy[2]>>
    ELSE IF IsTiny(dy) THEN <<Abs(dx[1]), dx[2]>>
    ELSE LET l == LCM(dx[2], dy[2])
             a == Abs(dx[1]) * (l \div dx[2])
             c == Abs(dy[1]) * (l \div dy[2])
             g == GCD(a, c)
         IN  IF g = 0 THEN I(0)
             ELSE IF (a \div g) > 30000 \/ (c \div g) > 30000
             THEN LET k == ((a \div g) + (c \div g)) \div 30000 + 1
                      s == ((a \div g) \div k) * ((a \div g) \div k) + ((c \div g) \div k) * ((c \div g) \div k)
                  IN  Mul(I(ISqrt(s)), Q(g * k, l))
             ELSE LET s == (a \div g) * (a \div g) + (c \div g) * (c \div g)
                      r == ISqrt(s)
                  IN  IF r * r = s THEN Mul(I(r), Q(g, l))
                      ELSE IF s < 500000
                           THEN Mul(Q(ISqrt(s * SqrtGrid * SqrtGrid), SqrtGrid), Q(g, l))
                           ELSE Mul(I(r), Q(g, l))

\* ------------------------------------------------------------------- angles

\* lattice units in a full turn (2 * Math.PI); one unit is 10 degrees
TwoPi == 36

\* Math.PI and Math.PI / 2 in lattice units
Pi == TwoPi \div 2

HalfPi == TwoPi \div 4

\* config.js: FOV_DEGREES = 60, in lattice units, and its half
FOV_RADIANS == TwoPi \div 6

FOV_RADIANS_HALF == TwoPi \div 12

\* 65 * (cos, sin) of the lattice angles 0..9 of the first quadrant
Quadrant ==
    <<  <<65, 0>>, <<63, 16>>, <<60, 25>>, <<56, 33>>, <<52, 39>>,
        <<39, 52>>, <<33, 56>>, <<25, 60>>, <<16, 63>>  >>

\* 65 * (cos, sin) of a whole number a of lattice units: the quadrant table
\* turned by quarter turns
Direction(a) ==
    LET n == a % TwoPi
        t == Quadrant[(n % HalfPi) + 1]
        k == n \div HalfPi
    IN  CASE k = 0 -> t
          [] k = 1 -> <<-t[2], t[1]>>
          [] k = 2 -> <<-t[1], -t[2]>>
          [] OTHER -> <<t[2], -t[1]>>

\* the whole lattice units of an angle; a tiny angle counts as 0
Units(a) == IF IsFinite(a) THEN a[1] \div a[2] ELSE 0

\* Math.cos and Math.sin
Cos(a) ==
    IF IsNaN(a) \/ IsInf(a) THEN NaN ELSE Q(Direction(Units(a))[1], 65)

Sin(a) ==
    IF IsNaN(a) \/ IsInf(a) THEN NaN
    ELSE IF IsTiny(a) THEN a
    ELSE Q(Direction(Units(a))[2], 65)

\* Math.tan.  At the axis angles it is what the doubles give: 0 at 0, large
\* and positive at Math.PI/2 and 3*Math.PI/2 (1.6e16 and 5.4e15, modelled as
\* Infinity), and the tiny negative -1.2e-16 at Math.PI
Tan(a) ==
    IF IsNaN(a) \/ IsInf(a) THEN NaN
    ELSE IF IsTiny(a) THEN a
    ELSE IF Direction(Units(a))[1] = 0 THEN PosInf
    ELSE IF Units(a) % TwoPi = Pi THEN NegTiny
    ELSE Div(I(Direction(Units(a))[2]), I(Direction(Units(a))[1]))

\* normalizeAngle from the remainder: 2 * Math.PI is added to a negative one
wrapped(remainder) ==
    IF Lt(remainder, I(0)) THEN Add(I(TwoPi), remainder) ELSE remainder

\* utils.js normalizeAngle
normalizeAngle(angle) == wrapped(Rem(angle, I(TwoPi)))

\* utils.js distanceBetweenPoints
distanceBetweenPoints(x1, y1, x2, y2) == Hypot(Sub(x2, x1), Sub(y2, y1))

\* ------------------------------------------------------------------- config

tileSize == 50

\* Number.MAX_SAFE_INTEGER, the finite "no wall" distance; any value larger
\* than every distance inside a map behaves alike
MAX_SAFE_INTEGER == 1000000

\* -------------------------------------------------------------------- Level

\* new Level(canvas, context, mapLayoutArray)
Level(mapLayoutArray) ==
    [ mapData   |-> mapLayoutArray,
      mapHeight |-> Len(mapLayoutArray),
      mapWidth  |-> Len(mapLayoutArray[1]),
      tileHeight |-> tileSize,
      tileWidth  |-> tileSize ]

\* mapData[tileY][tileX] for numbers that passed the bounds test
MapAt(level, tileX, tileY) == level.mapData[tileY[1] + 1][tileX[1] + 1]

\* tileY >= 0 && tileY < mapHeight && tileX >= 0 && tileX < mapWidth
InBounds(level, tileX, tileY) ==
    /\ Ge(tileY, I(0)) /\ Lt(tileY, I(level.mapHeight))
    /\ Ge(tileX, I(0)) /\ Lt(tileX, I(level.mapWidth))

\* hasCollision without its else branch: a tile outside the map is free
hasCollisionOpenOutside(level, tileX, tileY) ==
    InBounds(level, tileX, tileY) /\ MapAt(level, tileX, tileY) # 0

\* Level.hasCollision(tileX, tileY)
hasCollision(level, tileX, tileY) ==
    IF InBounds(level, tileX, tileY)
    THEN MapAt(level, tileX, tileY) # 0
    ELSE TRUE

\* x | 0: the integer part, rounded towards zero
Trunc(a) == IF IsFinite(a) /\ a[1] < 0 THEN I(-((-a[1]) \div a[2])) ELSE Floor(a)

\* getTileValue with the tile indices rounded towards zero instead of down
getTileValueTruncating(level, worldX, worldY) ==
    LET tileX == Trunc(Div(worldX, I(level.tileWidth)))
        tileY == Trunc(Div(worldY, I(level.tileHeight)))
    IN  IF InBounds(level, tileX, tileY) THEN MapAt(level, tileX, tileY) ELSE 0

\* Level.getTileValue(worldX, worldY)
getTileValue(level, worldX, worldY) ==
    LET tileX == Floor(Div(worldX, I(level.tileWidth)))
        tileY == Floor(Div(worldY, I(level.tileHeight)))
    IN  IF InBounds(level, tileX, tileY) THEN MapAt(level, tileX, tileY) ELSE 0

\* ---------------------------------------------------------------------- Ray

\* iterations after which a march of the model gives up; a march that is
\* still running then is reported with found = FALSE
MarchFuel == 20

\* the cell tested by a march is outside the map
CellOutside(level, checkCellX, checkCellY) ==
    \/ Lt(checkCellX, I(0)) \/ Ge(checkCellX, I(level.mapWidth))
    \/ Lt(checkCellY, I(0)) \/ Ge(checkCellY, I(level.mapHeight))

\* Ray.cast, the loop over the horizontal grid lines; n counts iterations
RECURSIVE HorizontalMarch(_, _, _, _, _, _, _)
HorizontalMarch(level, nextHorizontalX, nextHorizontalY, hStepX, hStepY, isFacingDown, n) ==
    LET checkCellX == Floor(Div(nextHorizontalX, I(tileSize)))
        checkCellY == IF isFacingDown
                      THEN Floor(Div(nextHorizontalY, I(tileSize)))
                      ELSE Sub(Floor(Div(nextHorizontalY, I(tileSize))), I(1))
    IN  IF n >= MarchFuel
        THEN [found |-> FALSE, hitX |-> NaN, hitY |-> NaN, steps |-> n]
        ELSE IF CellOutside(level, checkCellX, checkCellY)
        THEN [found |-> TRUE, hitX |-> PosInf, hitY |-> PosInf, steps |-> n + 1]
        ELSE IF hasCollision(level, checkCellX, checkCellY)
        THEN [found |-> TRUE, hitX |-> nextHorizontalX, hitY |-> nextHorizontalY,
              steps |-> n + 1]
        ELSE HorizontalMarch(level, Add(nextHorizontalX, hStepX),
                             Add(nextHorizontalY, hStepY), hStepX, hStepY,
                             isFacingDown, n + 1)

\* Ray.cast, the loop over the vertical grid lines
RECURSIVE VerticalMarch(_, _, _, _, _, _, _)
VerticalMarch(level, nextVerticalX, nextVerticalY, vStepX, vStepY, isFacingLeft, n) ==
    LET checkCellX == IF isFacingLeft
                      THEN Sub(Floor(Div(nextVerticalX, I(tileSize))), I(1))
                      ELSE Floor(Div(nextVerticalX, I(tileSize)))
        checkCellY == Floor(Div(nextVerticalY, I(tileSize)))
    IN  IF n >= MarchFuel
        THEN [found |-> FALSE, hitX |-> NaN, hitY |-> NaN, steps |-> n]
        ELSE IF CellOutside(level, checkCellX, checkCellY)
        THEN [found |-> TRUE, hitX |-> PosInf, hitY |-> PosInf, steps |-> n + 1]
        ELSE IF hasCollision(level, checkCellX, checkCellY)
        THEN [found |-> TRUE, hitX |-> nextVerticalX, hitY |-> nextVerticalY,
              steps |-> n + 1]
        ELSE VerticalMarch(level, Add(nextVerticalX, vStepX),
                           Add(nextVerticalY, vStepY), vStepX, vStepY,
                           isFacingLeft, n + 1)

\* the horizontal march with steps of zero: it never leaves its first point
HorizontalHitStandingStill(level, x, y, absoluteAngle) ==
    LET isFacingDown == Gt(absoluteAngle, I(0)) /\ Lt(absoluteAngle, I(Pi))
        hLine == Mul(Floor(Div(y, I(tileSize))), I(tileSize))
        hIntersectionY == IF isFacingDown THEN Add(hLine, I(tileSize)) ELSE hLine
        hIntersectionX == Add(x, Div(Sub(hIntersectionY, y), Tan(absoluteAngle)))
    IN  HorizontalMarch(level, hIntersectionX, hIntersectionY, I(0), I(0),
                        isFacingDown, 0)

\* the horizontal march of Ray.cast from its first grid line
HorizontalHit(level, x, y, absoluteAngle) ==
    LET isFacingDown == Gt(absoluteAngle, I(0)) /\ Lt(absoluteAngle, I(Pi))
        isFacingLeft == Gt(absoluteAngle, I(HalfPi)) /\ Lt(absoluteAngle, I(3 * HalfPi))
        hLine == Mul(Floor(Div(y, I(tileSize))), I(tileSize))
        hIntersectionY == IF isFacingDown THEN Add(hLine, I(tileSize)) ELSE hLine
        hAdjacentSide == Div(Sub(hIntersectionY, y), Tan(absoluteAngle))
        hIntersectionX == Add(x, hAdjacentSide)
        hStepY == IF isFacingDown THEN I(tileSize) ELSE I(-tileSize)
        hStep0 == Div(I(tileSize), Tan(absoluteAngle))
        hStepX == IF \/ (isFacingLeft /\ Gt(hStep0, I(0)))
                     \/ (~isFacingLeft /\ Lt(hStep0, I(0)))
                  THEN Neg(hStep0) ELSE hStep0
    IN  HorizontalMarch(level, hIntersectionX, hIntersectionY, hStepX, hStepY,
                        isFacingDown, 0)

\* the vertical march of Ray.cast from its first grid line
VerticalHit(level, x, y, absoluteAngle) ==
    LET isFacingDown == Gt(absoluteAngle, I(0)) /\ Lt(absoluteAngle, I(Pi))
        isFacingLeft == Gt(absoluteAngle, I(HalfPi)) /\ Lt(absoluteAngle, I(3 * HalfPi))
        vLine == Mul(Floor(Div(x, I(tileSize))), I(tileSize))
        vIntersectionX == IF ~isFacingLeft THEN Add(vLine, I(tileSize)) ELSE vLine
        vOppositeSide == Mul(Sub(vIntersectionX, x), Tan(absoluteAngle))
        vIntersectionY == Add(y, vOppositeSide)
        vStepX == IF isFacingLeft THEN I(-tileSize) ELSE I(tileSize)
        vStep0 == Mul(I(tileSize), Tan(absoluteAngle))
        vStepY == IF \/ (~isFacingDown /\ Gt(vStep0, I(0)))
                     \/ (isFacingDown /\ Lt(vStep0, I(0)))
                  THEN Neg(vStep0) ELSE vStep0
    IN  VerticalMarch(level, vIntersectionX, vIntersectionY, vStepX, vStepY,
                      isFacingLeft, 0)

\* the texture id looked up for a horizontal hit: getTileValue is handed the
\* tile indices of the wall tile
HorizontalTextureId(level, wallHitX, wallHitY, isFacingDown) ==
    LET wallTileY == IF isFacingDown
                     THEN Floor(Div(wallHitY, I(tileSize)))
                     ELSE Sub(Floor(Div(wallHitY, I(tileSize))), I(1))
    IN  getTileValue(level, Floor(Div(wallHitX, I(tileSize))), wallTileY)

\* the texture id looked up for a vertical hit
VerticalTextureId(level, wallHitX, wallHitY, isFacingLeft) ==
    LET wallTileX == IF isFacingLeft
                     THEN Sub(Floor(Div(wallHitX, I(tileSize))), I(1))
                     ELSE Floor(Div(wallHitX, I(tileSize)))
    IN  getTileValue(level, wallTileX, Floor(Div(wallHitY, I(tileSize))))

\* the corrected distance taken with the sine of the offset
correctedDistanceBySine(distance, relativeAngleOffset) ==
    IF distance = PosInf THEN I(MAX_SAFE_INTEGER)
    ELSE Mul(distance, Sin(relativeAngleOffset))

\* the end of Ray.cast: the fisheye-corrected distance, or the sentinel when
\* no wall was hit
correctedDistanceOf(distance, relativeAngleOffset) ==
    IF distance = PosInf THEN I(MAX_SAFE_INTEGER)
    ELSE Mul(distance, Cos(relativeAngleOffset))

\* the distance of one march's hit from the ray origin, Infinity when that
\* march left the map
hitDistance(x, y, hit) ==
    IF hit.hitX # PosInf
    THEN distanceBetweenPoints(x, y, hit.hitX, hit.hitY) ELSE PosInf

\* the end of Ray.cast from the choice between the two hits: the fields of
\* the ray; zValue is the value stored in zBuffer[screenColumn], hSteps and
\* vSteps the iterations of the two marches
castFields(level, absoluteAngle, relativeAngleOffset, h, v, horizontalHitDistance, verticalHitDistance, horizontal) ==
    LET isFacingDown == Gt(absoluteAngle, I(0)) /\ Lt(absoluteAngle, I(Pi))
        isFacingLeft == Gt(absoluteAngle, I(HalfPi)) /\ Lt(absoluteAngle, I(3 * HalfPi))
        wallHitX == IF horizontal THEN h.hitX ELSE v.hitX
        wallHitY == IF horizontal THEN h.hitY ELSE v.hitY
        distance == IF horizontal THEN horizontalHitDistance ELSE verticalHitDistance
    IN  [ wallHitX |-> wallHitX,
          wallHitY |-> wallHitY,
          horizontalWallHitX |-> h.hitX,
          horizontalWallHitY |-> h.hitY,
          verticalWallHitX |-> v.hitX,
          verticalWallHitY |-> v.hitY,
          horizontalHitDistance |-> horizontalHitDistance,
          verticalHitDistance |-> verticalHitDistance,
          isHorizontal |-> horizontal,
          texturePixelX |-> IF horizontal THEN Rem(h.hitX, I(tileSize))
                            ELSE Rem(v.hitY, I(tileSize)),
          textureId |-> IF horizontal
                        THEN HorizontalTextureId(level, h.hitX, h.hitY, isFacingDown)
                        ELSE VerticalTextureId(level, v.hitX, v.hitY, isFacingLeft),
          directDistance |-> IF distance = PosInf THEN I(MAX_SAFE_INTEGER)
                             ELSE distance,
          correctedDistance |-> correctedDistanceOf(distance, relativeAngleOffset),
          zValue |-> IF distance = PosInf THEN I(MAX_SAFE_INTEGER) ELSE distance,
          hFound |-> h.found, hSteps |-> h.steps,
          vFound |-> v.found, vSteps |-> v.steps ]

\* Ray.cast after the two marches with the farther hit winning
castHitsFarther(level, absoluteAngle, relativeAngleOffset, h, v, horizontalHitDistance, verticalHitDistance) ==
    castFields(level, absoluteAngle, relativeAngleOffset, h, v,
               horizontalHitDistance, verticalHitDistance,
               Gt(horizontalHitDistance, verticalHitDistance))

\* Ray.cast after the two marches: the nearer hit wins, the vertical one on
\* a tie or when a distance is NaN
castHits(level, absoluteAngle, relativeAngleOffset, h, v, horizontalHitDistance, verticalHitDistance) ==
    castFields(level, absoluteAngle, relativeAngleOffset, h, v,
               horizontalHitDistance, verticalHitDistance,
               Lt(horizontalHitDistance, verticalHitDistance))

\* Ray.cast with the results h and v of the two marches
castMarched(level, x, y, absoluteAngle, relativeAngleOffset, h, v) ==
    castHits(level, absoluteAngle, relativeAngleOffset, h, v,
             hitDistance(x, y, h), hitDistance(x, y, v))

\* Ray.cast(): the fields of the ray after the cast
cast(level, x, y, absoluteAngle, relativeAngleOffset) ==
    castMarched(level, x, y, absoluteAngle, relativeAngleOffset,
                HorizontalHit(level, x, y, absoluteAngle),
                VerticalHit(level, x, y, absoluteAngle))

\* ------------------------------------------------------------ Ray (object)

\* config.js canvasWidth: the number of screen columns and of rays (scaled)
canvasWidth == 6

\* new Ray(context, level, x, y, playerAngle, relativeAngleOffset, screenColumn)
Ray(x, y, playerAngle, relativeAngleOffset, screenColumn) ==
    [ x |-> x, y |-> y,
      relativeAngleOffset |-> relativeAngleOffset,
      playerAngle |-> playerAngle,
      absoluteAngle |-> normalizeAngle(Add(playerAngle, relativeAngleOffset)),
      wallHitX |-> I(0), wallHitY |-> I(0),
      screenColumn |-> screenColumn,
      correctedDistance |-> I(0), directDistance |-> I(0),
      texturePixelX |-> I(0), textureId |-> 0 ]

\* Ray.setAngle taking the new absolute angle for the offset of the ray as well
setAngleKeepingNone(ray, newPlayerAngle) ==
    [ray EXCEPT !.playerAngle = newPlayerAngle,
                !.absoluteAngle = normalizeAngle(Add(newPlayerAngle, ray.relativeAngleOffset)),
                !.relativeAngleOffset = normalizeAngle(Add(newPlayerAngle, ray.relativeAngleOffset))]

\* Ray.setAngle(newPlayerAngle)
setAngle(ray, newPlayerAngle) ==
    [ray EXCEPT !.playerAngle = newPlayerAngle,
                !.absoluteAngle = normalizeAngle(Add(newPlayerAngle, ray.relativeAngleOffset))]

\* the fields of a ray object after a cast whose results are c
rayWith(ray, c) ==
    [ray EXCEPT !.wallHitX = c.wallHitX, !.wallHitY = c.wallHitY,
                !.directDistance = c.directDistance,
                !.correctedDistance = c.correctedDistance,
                !.texturePixelX = c.texturePixelX,
                !.textureId = c.textureId]

\* ------------------------------------------------------------- the lighting

\* config.js PLAYER_LIGHT_RADIUS and AMBIENT_LIGHT_LEVEL
PLAYER_LIGHT_RADIUS == 150

AMBIENT_LIGHT_LEVEL == Q(1, 100)

\* Math.pow(base, LIGHT_FALLOFF_SHARPNESS), the exponent 0.9: the values at
\* base = k / PowGrid in thousandths, and straight lines between them
PowGrid == 10

PowTable == <<0, 126, 235, 338, 438, 536, 631, 725, 818, 910, 1000>>

\* the value between the table entries k and k + 1, base * PowGrid = k + part
PowBetween(k, part) ==
    Div(Add(I(PowTable[k + 1]),
            Mul(I(PowTable[k + 2] - PowTable[k + 1]), part)), I(1000))

\* the value from scaled = base * PowGrid, for 0 <= base < 1
PowScaled(scaled) == PowBetween(Floor(scaled)[1], Sub(scaled, Floor(scaled)))

\* Math.pow(base, 0.9): NaN for a negative base; above 1 the tangent at 1
Pow(base) ==
    IF IsNaN(base) THEN NaN
    ELSE IF base = PosInf THEN PosInf
    ELSE IF Lt(base, I(0)) THEN NaN
    ELSE IF IsTiny(base) THEN I(0)
    ELSE IF Ge(base, I(1)) THEN Add(I(1), Mul(Q(9, 10), Sub(base, I(1))))
    ELSE PowScaled(Mul(base, I(PowGrid)))

\* Math.max(ambientLight, Math.min(1.0, brightness))
clampedBrightness(brightness) == Max(AMBIENT_LIGHT_LEVEL, Min(I(1), brightness))

\* ambientLight + (1.0 - ambientLight) * Math.pow(1.0 - normalizedDistance,
\* falloffSharpness), normalizedDistance = distance / lightRadius
falloff(distance) ==
    Add(AMBIENT_LIGHT_LEVEL,
        Mul(Sub(I(1), AMBIENT_LIGHT_LEVEL),
            Pow(Sub(I(1), Div(distance, I(PLAYER_LIGHT_RADIUS))))))

\* the brightness of a wall strip with the falloff at every distance
wallBrightnessEverywhere(directDistance) ==
    clampedBrightness(falloff(directDistance))

\* Ray.renderWallStrip: the brightness of a wall strip
wallBrightness(directDistance) ==
    clampedBrightness(IF Le(directDistance, I(PLAYER_LIGHT_RADIUS))
                      THEN falloff(directDistance)
                      ELSE AMBIENT_LIGHT_LEVEL)

\* the brightness of a sprite without the falloff: full inside the light radius
spriteBrightnessUnlit(distanceToPlayer) ==
    clampedBrightness(IF Gt(distanceToPlayer, I(PLAYER_LIGHT_RADIUS))
                      THEN AMBIENT_LIGHT_LEVEL
                      ELSE I(1))

\* Sprite.draw: the brightness of a sprite
spriteBrightness(distanceToPlayer) ==
    clampedBrightness(IF Gt(distanceToPlayer, I(PLAYER_LIGHT_RADIUS))
                      THEN AMBIENT_LIGHT_LEVEL
                      ELSE IF Gt(distanceToPlayer, I(0))
                      THEN falloff(distanceToPlayer)
                      ELSE I(1))

\* ------------------------------------------------------------ the wall strip

\* config.js canvasHeight
canvasHeight == 500

\* the width and height in pixels of a wall texture and of a sprite image
originalTextureWidth == 64

originalTextureHeight == 64

\* Ray constructor and Sprite.draw: the distance of the projection plane
projectionPlaneDistance == Div(Q(canvasWidth, 2), Tan(I(FOV_RADIANS_HALF)))

\* Ray.renderWallStrip: the height of the strip with every strip one tile high
projectedWallHeightFlat(ray) == I(tileSize)

\* Ray.renderWallStrip: the height of the strip on the screen
projectedWallHeight(ray) ==
    Mul(Div(I(tileSize), ray.correctedDistance), projectionPlaneDistance)

\* Ray.renderWallStrip: the row offset of the texture in the atlas
textureAtlasOffsetY(textureId) ==
    IF (textureId - 1) * originalTextureHeight < 0 THEN 0
    ELSE (textureId - 1) * originalTextureHeight

\* the strip drawn by drawImage for a ray whose strip is height high
wallStrip(ray, height) ==
    [ screenX |-> ray.screenColumn,
      screenY0 |-> Sub(Q(canvasHeight, 2), Div(height, I(2))),
      projectedWallHeight |-> height,
      textureId |-> ray.textureId,
      textureAtlasOffsetY |-> textureAtlasOffsetY(ray.textureId),
      directDistance |-> ray.directDistance,
      correctedDistance |-> ray.correctedDistance,
      brightness |-> wallBrightness(ray.directDistance) ]

\* renderWallStrip without its early return
renderWallStripAlways(ray) == {wallStrip(ray, projectedWallHeight(ray))}

\* Ray.renderWallStrip(): the strips drawn, none or one
renderWallStrip(ray) ==
    IF Ge(ray.directDistance, I(MAX_SAFE_INTEGER)) \/ ray.textureId = 0 THEN {}
    ELSE {wallStrip(ray, projectedWallHeight(ray))}

\* ------------------------------------------------------------------- Player

\* Player: rotationSpeed (degreesToRadians(2), scaled to the lattice) and
\* movementSpeed
rotationSpeed == 1

movementSpeed == 2

\* the rays of a fan whose last ray is at +FOV_RADIANS_HALF: steps of
\* FOV_RADIANS / (numberOfRays - 1)
PlayerRaysToTheEnd(x, y, rotationAngle) ==
    [ i \in 1..canvasWidth |->
        Ray(x, y, rotationAngle,
            Sub(Mul(I(i - 1), Div(I(FOV_RADIANS), I(canvasWidth - 1))), I(FOV_RADIANS_HALF)),
            i - 1) ]

\* the rays built by the Player constructor: offsets from -FOV_RADIANS_HALF
\* in steps of FOV_RADIANS / numberOfRays
PlayerRays(x, y, rotationAngle) ==
    [ i \in 1..canvasWidth |->
        Ray(x, y, rotationAngle,
            Sub(Mul(I(i - 1), Div(I(FOV_RADIANS), I(canvasWidth))), I(FOV_RADIANS_HALF)),
            i - 1) ]

\* new Player(context, level, x, y), without its rays
Player(x, y) ==
    [ x |-> x, y |-> y, movementInput |-> 0, rotationInput |-> 0,
      rotationAngle |-> I(0), health |-> 100, ammo |-> 10, score |-> 0 ]

\* Player.checkCollision(worldX, worldY)
checkCollision(level, worldX, worldY) ==
    \/ CellOutside(level, Floor(Div(worldX, I(level.tileWidth))),
                   Floor(Div(worldY, I(level.tileHeight))))
    \/ hasCollision(level, Floor(Div(worldX, I(level.tileWidth))),
                    Floor(Div(worldY, I(level.tileHeight))))

\* the move made whatever the tile of the new position
playerStepThroughWalls(level, p, newX, newY) == [p EXCEPT !.x = newX, !.y = newY]

\* Player.update, the move: the new position unless it collides
playerStep(level, p, newX, newY) ==
    IF ~checkCollision(level, newX, newY) THEN [p EXCEPT !.x = newX, !.y = newY]
    ELSE p

playerMoved(level, p) ==
    playerStep(level, p,
        Add(p.x, Mul(Mul(I(p.movementInput), Cos(p.rotationAngle)), I(movementSpeed))),
        Add(p.y, Mul(Mul(I(p.movementInput), Sin(p.rotationAngle)), I(movementSpeed))))

\* Player.update, the turn: rotationAngle += rotationInput * rotationSpeed,
\* then normalizeAngle
playerTurned(p) ==
    [p EXCEPT !.rotationAngle =
        normalizeAngle(Add(p.rotationAngle, Mul(I(p.rotationInput), I(rotationSpeed))))]

\* the pickup that consumes a health pack at full health too
pickedUpAtFullHealth(p, sprite, distance) ==
    IF sprite.visible /\ sprite.type # "none" /\ Lt(distance, Q(tileSize, 2))
    THEN IF sprite.type = "ammo"
         THEN <<[p EXCEPT !.ammo = p.ammo + 10], [sprite EXCEPT !.visible = FALSE]>>
         ELSE <<[p EXCEPT !.health = IF p.health + 25 > 100 THEN 100 ELSE p.health + 25],
                [sprite EXCEPT !.visible = FALSE]>>
    ELSE <<p, sprite>>

\* Player.update, the pickup of one sprite within tileSize / 2: the pair of
\* the player and the sprite afterwards
pickedUp(p, sprite, distance) ==
    IF sprite.visible /\ sprite.type # "none" /\ Lt(distance, Q(tileSize, 2))
    THEN IF sprite.type = "ammo"
         THEN <<[p EXCEPT !.ammo = p.ammo + 10], [sprite EXCEPT !.visible = FALSE]>>
         ELSE IF sprite.type = "health" /\ p.health < 100
         THEN <<[p EXCEPT !.health = IF p.health + 25 > 100 THEN 100 ELSE p.health + 25],
                [sprite EXCEPT !.visible = FALSE]>>
         ELSE <<p, sprite>>
    ELSE <<p, sprite>>

\* the pair ps with the player and the sprite at i replaced by the pair r
pickupAt(ps, i, r) == <<r[1], [ps[2] EXCEPT ![i] = r[2]]>>

\* Player.update, the loop over the sprites from the last to the first: ps
\* is the pair of the player and the sprite list so far
RECURSIVE pickups(_, _)
pickups(ps, i) ==
    IF i = 0 THEN ps
    ELSE pickups(pickupAt(ps, i, pickedUp(ps[1], ps[2][i],
                     distanceBetweenPoints(ps[1].x, ps[1].y, ps[2][i].x, ps[2][i].y))),
                 i - 1)

\* Player.update, the rays re-anchored at the player
reanchored(p, rs) ==
    [ i \in 1..canvasWidth |->
        setAngle([rs[i] EXCEPT !.x = p.x, !.y = p.y], p.rotationAngle) ]

\* ------------------------------------------------------------------- Sprite

\* new Sprite(x, y, image, context) with the type and worldHeight given to it
\* by initializeStaticSprites; id stands for the identity of the object
Sprite(id, x, y, type, worldHeight) ==
    [ id |-> id, x |-> x, y |-> y,
      distanceToPlayer |-> I(0), angleRelativeToPlayerView |-> I(0),
      visible |-> TRUE, type |-> type, worldHeight |-> worldHeight ]

\* the numerator of a number over the denominator scale
Scaled(a, scale) == a[1] * (scale \div a[2])

\* the lattice angles in (-Pi, Pi], the range of Math.atan2, each with
\* 65 * (cos, sin)
AtanDirections == [a \in (1 - Pi)..Pi |-> Direction(a)]

\* 65 * |(ix, iy)| * the cosine of the angle between (ix, iy) and the
\* direction of the lattice angle a
Along(ix, iy, a) == ix * AtanDirections[a][1] + iy * AtanDirections[a][2]

\* the lattice angle in (-Pi, Pi] nearest to the direction of the integer
\* vector (ix, iy), the lower one of two equally near
nearestAngle(ix, iy) ==
    CHOOSE a \in (1 - Pi)..Pi :
        \A b \in (1 - Pi)..Pi :
            \/ Along(ix, iy, a) > Along(ix, iy, b)
            \/ Along(ix, iy, a) = Along(ix, iy, b) /\ a <= b

\* Math.atan2(vectorY, vectorX) rounded to the lattice; atan2(0, 0) = 0
Atan2(vectorY, vectorX) ==
    IF ~IsFinite(vectorX) \/ ~IsFinite(vectorY) THEN I(0)
    ELSE IF vectorX[1] = 0 /\ vectorY[1] = 0 THEN I(0)
    ELSE I(nearestAngle(Scaled(vectorX, LCM(vectorX[2], vectorY[2])),
                        Scaled(vectorY, LCM(vectorX[2], vectorY[2]))))

\* the angle difference left as it is
wrappedDifferenceNever(angleDifference) == angleDifference

\* Sprite.calculateRenderData: the angle difference wrapped into [-Pi, Pi]
wrappedDown(angleDifference) ==
    IF Gt(angleDifference, I(Pi)) THEN Sub(angleDifference, I(TwoPi))
    ELSE angleDifference

wrappedDifference(angleDifference) ==
    wrappedDown(IF Lt(angleDifference, I(-Pi)) THEN Add(angleDifference, I(TwoPi))
                ELSE angleDifference)

\* Sprite.calculateRenderData: the sprite with distanceToPlayer and
\* angleRelativeToPlayerView updated
calculateRenderData(sprite, p) ==
    [sprite EXCEPT
        !.distanceToPlayer = distanceBetweenPoints(p.x, p.y, sprite.x, sprite.y),
        !.angleRelativeToPlayerView =
            wrappedDifference(Sub(p.rotationAngle,
                                  Atan2(Sub(sprite.y, p.y), Sub(sprite.x, p.x))))]

\* Math.abs
AbsOf(a) == IF a[1] < 0 THEN Neg(a) ELSE a

\* calculateRenderData returning true for every sprite
isInFOVAlways(sprite) == TRUE

\* the value returned by calculateRenderData: the sprite is inside the FOV
isInFOV(sprite) == Lt(AbsOf(sprite.angleRelativeToPlayerView), I(FOV_RADIANS_HALF))

\* Sprite.draw: the fisheye-corrected distance of the sprite
correctedDistanceForProjection(sprite) ==
    Mul(sprite.distanceToPlayer, Cos(sprite.angleRelativeToPlayerView))

\* Sprite.draw: the width of the sprite on the screen
spriteScreenWidth(sprite, corrected) ==
    Mul(Mul(Div(sprite.worldHeight, corrected), projectionPlaneDistance),
        Div(I(originalTextureWidth), I(originalTextureHeight)))

\* Sprite.draw: the left edge of the sprite on the screen
spriteLeftScreenX(sprite, width) ==
    Sub(Add(Q(canvasWidth, 2),
            Mul(Tan(Neg(sprite.angleRelativeToPlayerView)), projectionPlaneDistance)),
        Div(width, I(2)))

\* the depth test on one column without the depth buffer: every strip is drawn
drawsStripAlways(zValue, corrected) == TRUE

\* Sprite.draw: the depth test on one column
drawsStrip(zValue, corrected) == Gt(zValue, corrected)

\* the loop over the columns with the sprite written into the depth buffer
\* at the columns where it is drawn
stripsDrawnWriting(g, sprite, corrected, lo, hi, startScreenPixelX, endScreenPixelX) ==
    [g EXCEPT
        !.depthLog = g.depthLog \o
            [ k \in 1..(hi - lo + 1) |->
                [op |-> IF drawsStrip(g.zBuffer[lo + k], corrected) THEN "write" ELSE "read",
                 column |-> lo + k - 1, by |-> sprite.id] ],
        !.zBuffer = [ c \in 1..canvasWidth |->
                        IF c - 1 \in lo..hi /\ drawsStrip(g.zBuffer[c], corrected)
                        THEN corrected ELSE g.zBuffer[c] ],
        !.strips = g.strips \cup
            { [sprite |-> sprite.id, column |-> c] :
                c \in { c \in lo..hi : drawsStrip(g.zBuffer[c + 1], corrected) } },
        !.drawn = g.drawn \cup
            { [sprite |-> sprite.id, correctedDistance |-> corrected,
               startScreenPixelX |-> startScreenPixelX,
               endScreenPixelX |-> endScreenPixelX] },
        !.drawOrder = Append(g.drawOrder,
            [sprite |-> sprite.id, distanceToPlayer |-> sprite.distanceToPlayer])]

\* Sprite.draw: the loop over the columns lo..hi of the sprite that are on
\* the screen; every column reads the depth buffer, the columns that pass
\* the depth test get a strip
stripsDrawn(g, sprite, corrected, lo, hi, startScreenPixelX, endScreenPixelX) ==
    [g EXCEPT
        !.depthLog = g.depthLog \o
            [ k \in 1..(hi - lo + 1) |->
                [op |-> "read", column |-> lo + k - 1, by |-> sprite.id] ],
        !.strips = g.strips \cup
            { [sprite |-> sprite.id, column |-> c] :
                c \in { c \in lo..hi : drawsStrip(g.zBuffer[c + 1], corrected) } },
        !.drawn = g.drawn \cup
            { [sprite |-> sprite.id, correctedDistance |-> corrected,
               startScreenPixelX |-> startScreenPixelX,
               endScreenPixelX |-> endScreenPixelX] },
        !.drawOrder = Append(g.drawOrder,
            [sprite |-> sprite.id, distanceToPlayer |-> sprite.distanceToPlayer])]

\* Sprite.draw from the columns of the sprite: startScreenPixelX up to,
\* not including, endScreenPixelX, clipped to the screen
drawColumns(g, sprite, corrected, startScreenPixelX, endScreenPixelX) ==
    IF ~IsFinite(startScreenPixelX) \/ ~IsFinite(endScreenPixelX) THEN g
    ELSE stripsDrawn(g, sprite, corrected,
            IF startScreenPixelX[1] < 0 THEN 0 ELSE startScreenPixelX[1],
            IF endScreenPixelX[1] > canvasWidth THEN canvasWidth - 1
            ELSE endScreenPixelX[1] - 1,
            startScreenPixelX[1], endScreenPixelX[1])

\* Sprite.draw from the left edge and the width of the sprite
drawFrom(g, sprite, corrected, left, width) ==
    drawColumns(g, sprite, corrected, Floor(left), Floor(Add(left, width)))

\* Sprite.draw without the test of the corrected distance
drawAtAnyDistance(g, sprite, corrected, width) ==
    drawFrom(g, sprite, corrected, spriteLeftScreenX(sprite, width), width)

\* Sprite.draw from the corrected distance: nothing at 0.1 or nearer
drawAt(g, sprite, corrected, width) ==
    IF Le(corrected, Q(1, 10)) THEN g
    ELSE drawFrom(g, sprite, corrected, spriteLeftScreenX(sprite, width), width)

\* Sprite.draw after calculateRenderData, for a sprite that is visible
drawInView(g, sprite) ==
    IF ~isInFOV(sprite) THEN g
    ELSE IF g.renderMode # 0 THEN g
    ELSE drawAt(g, sprite, correctedDistanceForProjection(sprite),
                spriteScreenWidth(sprite, correctedDistanceForProjection(sprite)))

\* the game with sprite i replaced
withSprite(g, i, sprite) == [g EXCEPT !.sprites[i] = sprite]

\* Sprite.draw of sprite i
Sprite_draw(g, i) ==
    IF ~g.sprites[i].visible THEN g
    ELSE drawInView(withSprite(g, i, calculateRenderData(g.sprites[i], g.player)),
                    calculateRenderData(g.sprites[i], g.player))

\* --------------------------------------------------------------- the frame

\* menu.js levelOneLayout (scaled): a ring of walls, all of id 1, around a
\* room with one pillar
levelOneLayout ==
    <<  <<1, 1, 1, 1, 1>>,
        <<1, 0, 0, 0, 1>>,
        <<1, 0, 1, 0, 1>>,
        <<1, 0, 0, 0, 1>>,
        <<1, 1, 1, 1, 1>>  >>

gameLevel == Level(levelOneLayout)

\* renderVisibleSprites: the first loop, over sprite i and those after it
RECURSIVE renderDataFrom(_, _)
renderDataFrom(g, i) ==
    IF i > Len(g.sprites) THEN g
    ELSE renderDataFrom(
            withSprite(g, i,
                IF g.sprites[i].visible
                THEN calculateRenderData(g.sprites[i], g.player)
                ELSE [g.sprites[i] EXCEPT !.distanceToPlayer = PosInf]),
            i + 1)

\* the comparator of the sort, obj2.distanceToPlayer - obj1.distanceToPlayer,
\* is positive: obj1 goes behind obj2
sortsAfter(obj1, obj2) ==
    Gt(Sub(obj2.distanceToPlayer, obj1.distanceToPlayer), I(0))

\* a sorted list with one more element, placed behind its equals (Array.sort
\* is stable)
RECURSIVE inserted(_, _)
inserted(sorted, e) ==
    IF sorted = <<>> THEN <<e>>
    ELSE IF sortsAfter(sorted[Len(sorted)], e)
    THEN Append(inserted(SubSeq(sorted, 1, Len(sorted) - 1), e), sorted[Len(sorted)])
    ELSE Append(sorted, e)

\* sprites.sort(...): the first n sprites, farthest first
RECURSIVE sortedByDistance(_, _)
sortedByDistance(list, n) ==
    IF n = 0 THEN <<>>
    ELSE inserted(sortedByDistance(list, n - 1), list[n])

\* renderVisibleSprites: the last loop, over sprite i and those after it
RECURSIVE drawnFrom(_, _)
drawnFrom(g, i) ==
    IF i > Len(g.sprites) THEN g
    ELSE drawnFrom(IF g.sprites[i].visible THEN Sprite_draw(g, i) ELSE g, i + 1)

\* the game with its sprites left in the order they have
withUnsorted(g) == g

\* the game with its sprites sorted
withSorted(g) ==
    [g EXCEPT !.sprites = sortedByDistance(g.sprites, Len(g.sprites))]

\* renderVisibleSprites()
renderVisibleSprites(g) ==
    IF Len(g.sprites) = 0 THEN g
    ELSE drawnFrom(withSorted(renderDataFrom(g, 1)), 1)

\* Ray.draw of ray i with the results c of its cast: the ray keeps them,
\* zBuffer[screenColumn] is set to the direct distance, and in the 3D view a
\* ray with a texture draws its wall strip
rayDrawn(g, i, c) ==
    [g EXCEPT
        !.wallStrips = g.wallStrips \cup
            (IF g.renderMode = 0 /\ c.textureId # 0
             THEN renderWallStrip(rayWith(g.rays[i], c)) ELSE {}),
        !.rays[i] = rayWith(g.rays[i], c),
        !.zBuffer[g.rays[i].screenColumn + 1] = c.zValue,
        !.depthLog = Append(g.depthLog,
            [op |-> "write", column |-> g.rays[i].screenColumn, by |-> i - 1])]

\* Ray.draw of ray i
Ray_draw(g, i) ==
    rayDrawn(g, i, cast(gameLevel, g.rays[i].x, g.rays[i].y,
                        g.rays[i].absoluteAngle, g.rays[i].relativeAngleOffset))

\* Player.draw: the loop over ray i and those after it
RECURSIVE drawRaysFrom(_, _)
drawRaysFrom(g, i) ==
    IF i > canvasWidth THEN g ELSE drawRaysFrom(Ray_draw(g, i), i + 1)

\* Player.draw with one ray fewer: the first column is never cast
Player_drawShort(g) == drawRaysFrom(g, 2)

\* Player.draw()
Player_draw(g) == drawRaysFrom(g, 1)

\* the game after the pickups ps, the rays left where they were
updatedAdrift(g, ps) == [g EXCEPT !.player = ps[1], !.sprites = ps[2]]

\* the game after the pickups ps of Player.update, the rays re-anchored
updated(g, ps) ==
    [g EXCEPT !.player = ps[1], !.sprites = ps[2],
              !.rays = reanchored(ps[1], g.rays)]

\* Player.update()
Player_update(g) ==
    updated(g, pickups(<<playerTurned(playerMoved(gameLevel, g.player)), g.sprites>>,
                       Len(g.sprites)))

\* Player.update() of a player constructed with the level (this.gameLevel)
Player_updateOn(level, g) ==
    updated(g, pickups(<<playerTurned(playerMoved(level, g.player)), g.sprites>>,
                       Len(g.sprites)))

\* mainGameLoop: zBuffer.fill(Infinity), at the start of the drawing
zBufferFilled(g) ==
    [g EXCEPT !.zBuffer = [c \in 1..canvasWidth |-> PosInf],
              !.depthLog = <<[op |-> "fill", column |-> -1, by |-> -1]>>,
              !.strips = {}, !.drawn = {}, !.drawOrder = <<>>, !.wallStrips = {}]

\* the drawing with the sprites before the rays
renderedSpritesFirst(g) == Player_draw(renderVisibleSprites(g))

\* mainGameLoop: the drawing, in the map view (renderMode 1) and in the 3D
\* view alike the rays of Player.draw and then the sprites
rendered(g) == renderVisibleSprites(Player_draw(g))

\* mainGameLoop() past its early returns
frame(g) ==
    rendered(zBufferFilled(IF g.player.health > 0 THEN Player_update(g) ELSE g))

\* Player.takeDamage(amount)
takeDamage(p, amount) ==
    IF p.health <= 0 THEN p
    ELSE [p EXCEPT !.health = IF p.health - amount <= 0 THEN 0 ELSE p.health - amount]

\* EnemyProjectile.checkPlayerCollision of a projectile that has reached the
\* player: nothing for a player without health, else takeDamage(2)
struck(g) ==
    IF g.player.health = 0 THEN g ELSE [g EXCEPT !.player = takeDamage(g.player, 2)]

\* mainGameLoop() past its early returns, in a frame in which one enemy
\* projectile reaches the player: the projectiles are updated after the
\* player and before the drawing
frameUnderFire(g) ==
    rendered(zBufferFilled(struck(IF g.player.health > 0 THEN Player_update(g) ELSE g)))

\* ------------------------------------------------------------ asset loading

\* menu.js NUMBER_OF_TORCH_FRAMES (scaled)
NUMBER_OF_TORCH_FRAMES == 1

\* initializeGame: the varName of the entries of imageAssetDefinitions
\* (scaled): an image that gates nothing, the image of the enemies and the
\* images of the items
imageAssetDefinitions ==
    <<"wallTexturesImage", "enemyImage", "ammoPackImage", "healthPackImage">>

\* the assets by number: the images in the order of imageAssetDefinitions,
\* then the torch frames
Assets == 1..(Len(imageAssetDefinitions) + NUMBER_OF_TORCH_FRAMES)

\* the asset held by the global variable varName
ImageOf(varName) ==
    CHOOSE a \in 1..Len(imageAssetDefinitions) : imageAssetDefinitions[a] = varName

\* var player; before initializeGameObjects
null == [null |-> TRUE]

\* the globals of the loading when the page is loaded: no context, both
\* counters 0, no image requested; gameObjects counts the runs of
\* initializeGameObjects (gameLevel exists after the first), intervals the
\* setInterval(mainGameLoop) timers started, timeouts holds the functions
\* with a setTimeout pending, retries counts the timeouts that fired (modulo
\* RetryWindow),
\* staticSprites and enemies count the runs of initializeStaticSprites and
\* initializeEnemies that reached their end
NotStarted ==
    [ gameContext |-> FALSE, assetsToLoadCount |-> 0, assetsLoadedCount |-> 0,
      images |-> [a \in Assets |-> "none"], gameObjects |-> 0, intervals |-> 0,
      timeouts |-> {}, retries |-> 0, staticSprites |-> 0, enemies |-> 0 ]

\* the globals of the loading after initializeGame when every asset has
\* loaded and initializeGameObjects has run
Loaded ==
    [ gameContext |-> TRUE,
      assetsToLoadCount |-> Len(imageAssetDefinitions) + NUMBER_OF_TORCH_FRAMES,
      assetsLoadedCount |-> Len(imageAssetDefinitions) + NUMBER_OF_TORCH_FRAMES,
      images |-> [a \in Assets |-> "complete"], gameObjects |-> 1, intervals |-> 1,
      timeouts |-> {}, retries |-> 0, staticSprites |-> 1, enemies |-> 1 ]

\* initializeGame(): the context, the counters, and every image requested
gameStarted(l) ==
    [l EXCEPT !.gameContext = TRUE,
              !.assetsToLoadCount = Len(imageAssetDefinitions) + NUMBER_OF_TORCH_FRAMES,
              !.assetsLoadedCount = 0,
              !.images = [a \in Assets |-> "pending"]]

\* onAssetLoaded / onAssetLoadError: the image is complete or broken, and
\* assetsLoadedCount++
assetCounted(l, a, outcome) ==
    [l EXCEPT !.images[a] = outcome, !.assetsLoadedCount = @ + 1]

\* every asset but one has reported
allAssetsInEarly(l) == l.assetsLoadedCount + 1 >= l.assetsToLoadCount

\* onAssetLoaded / onAssetLoadError: assetsLoadedCount >= assetsToLoadCount
allAssetsIn(l) == l.assetsLoadedCount >= l.assetsToLoadCount

\* image && image.complete && image.naturalHeight: a broken image is
\* complete with naturalHeight 0
imageReady(l, varName) == l.images[ImageOf(varName)] = "complete"

\* initializeStaticSprites(): the pair of the loading and the sprites after
\* it, items being the item sprites on the spots drawn for them; a
\* setTimeout on itself unless every item image is ready
initializeStaticSprites(l, spriteList, items) ==
    IF ~(l.gameContext /\ imageReady(l, "ammoPackImage") /\ imageReady(l, "healthPackImage"))
    THEN <<[l EXCEPT !.timeouts = @ \cup {"initializeStaticSprites"}], spriteList>>
    ELSE <<[l EXCEPT !.staticSprites = @ + 1], spriteList \o items>>

\* initializeEnemies() with no enemy to place: a setTimeout on itself unless
\* the enemy image is ready
initializeEnemies(l) ==
    IF ~(l.gameContext /\ imageReady(l, "enemyImage"))
    THEN [l EXCEPT !.timeouts = @ \cup {"initializeEnemies"}]
    ELSE [l EXCEPT !.enemies = @ + 1]

\* the timeouts that fired are counted modulo RetryWindow
RetryWindow == 2

\* the setTimeout of function f has fired
timeoutFired(l, f) ==
    [l EXCEPT !.timeouts = @ \ {f}, !.retries = (@ + 1) % RetryWindow]

\* frames are drawn only once nothing is left to retry
framesCanRunLate(l, p) ==
    /\ l.gameContext /\ l.gameObjects > 0
    /\ l.assetsLoadedCount >= l.assetsToLoadCount
    /\ p # null
    /\ l.timeouts = {}

\* mainGameLoop: none of its early returns is taken
framesCanRun(l, p) ==
    /\ l.gameContext /\ l.gameObjects > 0
    /\ l.assetsLoadedCount >= l.assetsToLoadCount
    /\ p # null

\* ------------------------------------------------------------ calls (units)

VARIABLES call, player, rays, zBuffer, sprites, renderMode, frames, depthLog, strips, drawn, drawOrder, wallStrips, loading

\* the enemies, the projectiles of the player and of the enemies, the rising
\* effects, the interval timer of the shooting as recorded and the timers
\* that run, lastPlayerFireTime as the cooldown being over, and the history
\* of the fight: the sprites constructed, the projectiles deactivated and
\* the damage done
VARIABLES enemies, playerProjectiles, enemyProjectiles, risingSpriteEffects, playerShootInterval, shootTimers, fireReady, spawned, deactivated, damageLog

fightVars == <<enemies, playerProjectiles, enemyProjectiles, risingSpriteEffects, playerShootInterval, shootTimers, fireReady, spawned, deactivated, damageLog>>

vars == <<call, player, rays, zBuffer, sprites, renderMode, frames, depthLog, strips, drawn, drawOrder, wallStrips, loading, fightVars>>

gameVars == <<player, rays, zBuffer, sprites, renderMode, frames, depthLog, strips, drawn, drawOrder, wallStrips, loading, fightVars>>

\* the game without enemies: var enemies = [], playerProjectiles = [],
\* enemyProjectiles = [], risingSpriteEffects = []; let playerShootInterval
\* = null, lastPlayerFireTime = 0
NoFight ==
    /\ enemies = <<>>
    /\ playerProjectiles = <<>>
    /\ enemyProjectiles = <<>>
    /\ risingSpriteEffects = <<>>
    /\ playerShootInterval = 0
    /\ shootTimers = {}
    /\ fireReady = TRUE
    /\ spawned = 2
    /\ deactivated = {}
    /\ damageLog = <<>>

\* the globals as one record
game ==
    [ player |-> player, rays |-> rays, zBuffer |-> zBuffer, sprites |-> sprites,
      renderMode |-> renderMode, depthLog |-> depthLog, strips |-> strips,
      drawn |-> drawn, drawOrder |-> drawOrder, wallStrips |-> wallStrips ]

\* a ring of walls with different texture ids around an empty 3 x 2 room
RoomMap ==
    <<  <<1, 2, 3, 4, 1>>,
        <<2, 0, 0, 0, 3>>,
        <<3, 0, 0, 0, 4>>,
        <<4, 1, 2, 3, 4>>  >>

\* a ring of walls around a room with one pillar
PillarMap ==
    <<  <<2, 1, 1, 1, 1>>,
        <<1, 0, 0, 0, 1>>,
        <<1, 0, 3, 0, 1>>,
        <<1, 0, 0, 0, 1>>,
        <<1, 1, 1, 1, 1>>  >>

\* a corridor whose east end is open: a ray can leave the grid
GapMap ==
    <<  <<1, 1, 1, 1>>,
        <<1, 0, 0, 0>>,
        <<1, 1, 1, 1>>  >>

\* the room of 15 tiles across: a corridor inside a ring of walls
CorridorMap ==
    <<  <<1, 1, 1, 1, 1, 1, 1, 1, 1, 1, 1, 1, 1, 1, 1>>,
        <<1, 0, 0, 0, 0, 0, 0, 0, 0, 0, 0, 0, 0, 0, 1>>,
        <<1, 1, 1, 1, 1, 1, 1, 1, 1, 1, 1, 1, 1, 1, 1>>  >>

\* one open tile inside walls, the wall of the corner with a texture id
\* beyond those of the atlas
TextureMap ==
    <<  <<9, 1, 1>>,
        <<1, 0, 1>>,
        <<1, 1, 1>>  >>

Levels ==
    {Level(RoomMap), Level(PillarMap), Level(GapMap), Level(CorridorMap),
     Level(TextureMap)}

\* tile indices asked of hasCollision run from -TileMargin to the map size
\* plus TileMargin
TileMargin == 2

\* world coordinates asked of getTileValue and used as ray origins
WorldCoords == {-51, -50, -1, 0, 49, 50, 60, 75, 99, 100, 125, 149, 150, 175, 199, 200, 249, 250, 260}

OriginCoords == {50, 75, 100, 125, 149, 175}

\* the position is inside the map, in a tile that holds 0
InOpenTile(level, x, y) ==
    /\ x \div tileSize \in 0..(level.mapWidth - 1)
    /\ y \div tileSize \in 0..(level.mapHeight - 1)
    /\ level.mapData[(y \div tileSize) + 1][(x \div tileSize) + 1] = 0

\* the offsets of the rays cast: the two ends of the fan, its middle and one more
RayOffsets == {-FOV_RADIANS_HALF, 0, 1, FOV_RADIANS_HALF}

\* the calls made of the three operations, each with its arguments
HasCollisionCalls ==
    UNION { { [op |-> "hasCollision", done |-> FALSE, level |-> level,
               tileX |-> tileX, tileY |-> tileY]
              : tileX \in (-TileMargin)..(level.mapWidth + TileMargin),
                tileY \in (-TileMargin)..(level.mapHeight + TileMargin) }
            : level \in Levels }

GetTileValueCalls ==
    { [op |-> "getTileValue", done |-> FALSE, level |-> level,
       worldX |-> worldX, worldY |-> worldY]
      : level \in Levels, worldX \in WorldCoords, worldY \in WorldCoords }

CastCalls ==
    UNION { { [op |-> "cast", done |-> FALSE, level |-> level, x |-> x, y |-> y,
               absoluteAngle |-> absoluteAngle,
               relativeAngleOffset |-> relativeAngleOffset]
              : x \in {ox \in OriginCoords : InOpenTile(level, ox, y)},
                absoluteAngle \in 0..(TwoPi - 1),
                relativeAngleOffset \in RayOffsets }
            : level \in Levels, y \in OriginCoords }

\* the world coordinate of the middle of tile index t
TileCentre(t) == Q(2 * t * tileSize + tileSize, 2)

\* findRandomEmptySpotCoordinates: the inner tiles <<r, c>> of the layout
\* that hold 0 and are not occupied
EmptySpots(occupied) ==
    { spot \in (1..(Len(levelOneLayout) - 2)) \X (1..(Len(levelOneLayout[1]) - 2)) :
        levelOneLayout[spot[1] + 1][spot[2] + 1] = 0 /\ spot \notin occupied }

\* initializeGameObjects with the spots drawn for the player, one ammo pack
\* and one health pack (initializeStaticSprites), and the frame history empty
initializeGameObjects(playerStartSpot, ammoSpot, healthSpot) ==
    /\ player = Player(TileCentre(playerStartSpot[2]), TileCentre(playerStartSpot[1]))
    /\ rays = PlayerRays(TileCentre(playerStartSpot[2]), TileCentre(playerStartSpot[1]), I(0))
    /\ zBuffer = [c \in 1..canvasWidth |-> PosInf]
    /\ sprites = << Sprite(1, TileCentre(ammoSpot[2]), TileCentre(ammoSpot[1]),
                           "ammo", Q(tileSize, 3)),
                    Sprite(2, TileCentre(healthSpot[2]), TileCentre(healthSpot[1]),
                           "health", Div(I(tileSize), Q(5, 2))) >>
    /\ renderMode = 0
    /\ frames = 0
    /\ depthLog = <<>>
    /\ strips = {}
    /\ drawn = {}
    /\ drawOrder = <<>>
    /\ wallStrips = {}
    /\ loading = Loaded
    /\ NoFight

\* no call of a utility is recorded
NoCall == [op |-> "none", done |-> TRUE]

\* new Level(canvas, context, mapLayoutArray) on any array: the constructor
\* reads this.mapData[0].length, a TypeError when there is no row 0, and
\* tests nothing else
LevelConstructed(mapLayoutArray) ==
    IF Len(mapLayoutArray) = 0 THEN [error |-> "TypeError"]
    ELSE [error |-> "none", level |-> Level(mapLayoutArray)]

\* layouts that are not a rectangle of tiles: no row, rows without a column,
\* rows of different lengths
MalformedLayouts ==
    { <<>>,
      << <<>> >>,
      << <<>>, <<>> >>,
      << <<1, 1, 1>>, <<1, 0>>, <<1, 1, 1>> >>,
      << <<1, 1>>, <<1, 0, 1>>, <<1, 1, 1>> >> }

Layouts == MalformedLayouts \cup {RoomMap, PillarMap, GapMap, CorridorMap, TextureMap}

LevelCalls == { [op |-> "Level", done |-> FALSE, layout |-> layout] : layout \in Layouts }

\* distances handed to the brightness of walls and sprites run from 0 to
\* DistanceMargin beyond the light radius
DistanceMargin == 10

\* the distances: whole ones, halves, and the distance of a ray without a wall
Distances ==
    {Q(n, 2) : n \in 0..(2 * (PLAYER_LIGHT_RADIUS + DistanceMargin))}
        \cup {I(MAX_SAFE_INTEGER)}

BrightnessCalls ==
    { [op |-> "brightness", done |-> FALSE, distance |-> distance]
      : distance \in Distances }

\* the positions of the sprite handed to Sprite.draw, the player in the
\* middle of the tile <<1, 1>>: on the player, a twentieth of a pixel and
\* one pixel from it, and in the tiles around
SpriteCoords == {I(25), I(74), Q(1499, 20), I(75), Q(1501, 20), I(76), I(125), I(175)}

SpriteDrawCalls ==
    { [op |-> "Sprite.draw", done |-> FALSE, heading |-> heading, x |-> x, y |-> y]
      : heading \in 0..(TwoPi - 1), x \in SpriteCoords, y \in SpriteCoords }

\* the game in which Sprite.draw is called: the player turned to the
\* heading, the first sprite at (x, y), the depth buffer filled
spriteGame(g, heading, x, y) ==
    zBufferFilled([g EXCEPT !.player.rotationAngle = I(heading),
                            !.sprites[1].x = x, !.sprites[1].y = y])

\* calls of Player.update in one sequence
UpdateCalls == 2

\* the places of the player before a sequence of Player.update calls, in
\* the level of the game: one pixel from the west wall, one pixel from the
\* pillar, on the ammo pack, between the two packs and near the health pack
UpdatePlaces ==
    { <<I(51), I(75)>>, <<I(99), I(125)>>, <<I(125), I(75)>>, <<I(149), I(75)>>,
      <<I(160), I(75)>> }

\* the game in which Player.update is called: the player at the place with
\* the heading and the health, the two packs visible or not
updateGame(g, place, heading, health, visible) ==
    [g EXCEPT !.player.x = place[1], !.player.y = place[2],
              !.player.rotationAngle = I(heading), !.player.health = health,
              !.sprites[1].visible = visible, !.sprites[2].visible = visible]

\* the player and the sprites of the game g
updateState(g) == [player |-> g.player, sprites |-> g.sprites, rays |-> g.rays]

\* the sequences of calls of Player.update: in the level of the game, and in
\* the corridor with the open end, one pixel from the end
PlayerUpdateCalls ==
    { [op |-> "Player.update", done |-> FALSE, level |-> level, calls |-> 0,
       place |-> place, heading |-> heading, health |-> health, visible |-> visible,
       movementInput |-> 0, rotationInput |-> 0] :
        level \in {gameLevel}, place \in UpdatePlaces, heading \in {0, 9, 18, 27},
        health \in {50, 80, 100}, visible \in BOOLEAN }
    \cup
    { [op |-> "Player.update", done |-> FALSE, level |-> level, calls |-> 0,
       place |-> place, heading |-> heading, health |-> health, visible |-> visible,
       movementInput |-> 0, rotationInput |-> 0] :
        level \in {Level(GapMap)}, place \in {<<I(199), I(75)>>}, heading \in {0, 9, 18, 27},
        health \in {100}, visible \in {TRUE} }

CallInit ==
    /\ call \in HasCollisionCalls \cup GetTileValueCalls \cup CastCalls
                \cup BrightnessCalls \cup LevelCalls \cup SpriteDrawCalls
                \cup PlayerUpdateCalls
    /\ initializeGameObjects(<<1, 1>>, <<1, 2>>, <<1, 3>>)

CallHasCollision ==
    /\ call.op = "hasCollision" /\ ~call.done
    /\ call' = [op |-> "hasCollision", done |-> TRUE, level |-> call.level,
                tileX |-> call.tileX, tileY |-> call.tileY,
                result |-> hasCollision(call.level, I(call.tileX), I(call.tileY))]
    /\ UNCHANGED gameVars

\* getTileValue clearing the tile it has read
CallGetTileValueClearing ==
    /\ call.op = "getTileValue" /\ ~call.done
    /\ call' = [op |-> "getTileValue", done |-> TRUE,
                level |-> [call.level EXCEPT !.mapData[1][1] = 0],
                worldX |-> call.worldX, worldY |-> call.worldY,
                result |-> getTileValue(call.level, I(call.worldX), I(call.worldY))]
    /\ UNCHANGED gameVars

CallGetTileValue ==
    /\ call.op = "getTileValue" /\ ~call.done
    /\ call' = [op |-> "getTileValue", done |-> TRUE, level |-> call.level,
                worldX |-> call.worldX, worldY |-> call.worldY,
                result |-> getTileValue(call.level, I(call.worldX), I(call.worldY))]
    /\ UNCHANGED gameVars

CallCast ==
    /\ call.op = "cast" /\ ~call.done
    /\ call' = [op |-> "cast", done |-> TRUE, level |-> call.level,
                x |-> call.x, y |-> call.y,
                absoluteAngle |-> call.absoluteAngle,
                relativeAngleOffset |-> call.relativeAngleOffset,
                ray |-> cast(call.level, I(call.x), I(call.y), I(call.absoluteAngle),
                             I(call.relativeAngleOffset))]
    /\ UNCHANGED gameVars

\* the lighting of Ray.renderWallStrip and of Sprite.draw at one distance
CallBrightness ==
    /\ call.op = "brightness" /\ ~call.done
    /\ call' = [op |-> "brightness", done |-> TRUE, distance |-> call.distance,
                wall |-> wallBrightness(call.distance),
                sprite |-> spriteBrightness(call.distance)]
    /\ UNCHANGED gameVars

\* Ray.renderWallStrip on the ray of screen column 0 after its cast
CallRenderWallStrip ==
    /\ call.op = "cast" /\ call.done
    /\ call' = [op |-> "renderWallStrip", done |-> TRUE, level |-> call.level,
                x |-> call.x, y |-> call.y,
                absoluteAngle |-> call.absoluteAngle,
                relativeAngleOffset |-> call.relativeAngleOffset,
                ray |-> call.ray,
                strips |-> renderWallStrip(
                    rayWith(Ray(I(call.x), I(call.y),
                                Sub(I(call.absoluteAngle), I(call.relativeAngleOffset)),
                                I(call.relativeAngleOffset), 0),
                            call.ray))]
    /\ UNCHANGED gameVars

\* new Level(...) in initializeGameObjects
CallLevel ==
    /\ call.op = "Level" /\ ~call.done
    /\ call' = [op |-> "Level", done |-> TRUE, layout |-> call.layout,
                result |-> LevelConstructed(call.layout)]
    /\ UNCHANGED gameVars

\* Sprite.draw of the first sprite, calculateRenderData included
CallSpriteDraw ==
    /\ call.op = "Sprite.draw" /\ ~call.done
    /\ \E g \in {Sprite_draw(spriteGame(game, call.heading, call.x, call.y), 1)} :
        call' = [op |-> "Sprite.draw", done |-> TRUE, heading |-> call.heading,
                 x |-> call.x, y |-> call.y, sprite |-> g.sprites[1],
                 zBuffer |-> g.zBuffer, strips |-> g.strips, drawn |-> g.drawn]
    /\ UNCHANGED gameVars

\* Player.update() after a key event: the first call on the game at the
\* place of the call, every later call on the result of the call before
CallPlayerUpdate ==
    /\ call.op = "Player.update" /\ call.calls < UpdateCalls
    /\ \E movementInput \in {-1, 0, 1} : \E rotationInput \in {-1, 0, 1} :
       \E before \in {IF call.calls = 0
                       THEN updateState(updateGame(game, call.place, call.heading,
                                                   call.health, call.visible))
                       ELSE call.after} :
       \E held \in {[before EXCEPT !.player.movementInput = movementInput,
                                    !.player.rotationInput = rotationInput]} :
        call' = [op |-> "Player.update", done |-> call.calls + 1 = UpdateCalls,
                 level |-> call.level, calls |-> call.calls + 1,
                 place |-> call.place, heading |-> call.heading,
                 health |-> call.health, visible |-> call.visible,
                 movementInput |-> movementInput, rotationInput |-> rotationInput,
                 before |-> held,
                 after |-> updateState(Player_updateOn(call.level,
                              [game EXCEPT !.player = held.player,
                                           !.sprites = held.sprites,
                                           !.rays = held.rays]))]
    /\ UNCHANGED gameVars

CallNext ==
    \/ CallLevel
    \/ CallPlayerUpdate
    \/ CallSpriteDraw
    \/ CallHasCollision
    \/ CallGetTileValue
    \/ CallCast
    \/ CallRenderWallStrip
    \/ CallBrightness

CallSpec == CallInit /\ [][CallNext]_vars

\* ---------------------------------------------------------------- the game

\* frames of one run
MaxFrames == 2

\* the whole angles handed to normalizeAngle run from -MaxAngle to MaxAngle
MaxAngle == 40

\* the angles handed to normalizeAngle: whole numbers of lattice units, and
\* the two tiny angles
AngleInputs == {I(n) : n \in (-MaxAngle)..MaxAngle} \cup {NegTiny, PosTiny}

\* the spots tried for the player, the ammo pack and the health pack, as
\* <<row, column>>
PlayerSpots == {<<1, 1>>, <<2, 1>>, <<3, 3>>}

AmmoSpots == {<<1, 2>>, <<2, 3>>}

HealthSpots == {<<1, 3>>, <<3, 1>>}

\* the game after initializeGameObjects, the spots drawn at random
Init ==
    /\ call = NoCall
    /\ \E playerStartSpot \in EmptySpots({}) \cap PlayerSpots :
       \E ammoSpot \in EmptySpots({playerStartSpot}) \cap AmmoSpots :
       \E healthSpot \in EmptySpots({playerStartSpot, ammoSpot}) \cap HealthSpots :
           initializeGameObjects(playerStartSpot, ammoSpot, healthSpot)

\* the keydown listener: the arrow keys
keydown ==
    /\ player # null
    /\ player.health > 0
    /\ \E keyCode \in {37, 38, 39, 40} :
        player' = CASE keyCode = 38 -> [player EXCEPT !.movementInput = 1]
                    [] keyCode = 40 -> [player EXCEPT !.movementInput = -1]
                    [] keyCode = 39 -> [player EXCEPT !.rotationInput = 1]
                    [] OTHER -> [player EXCEPT !.rotationInput = -1]
    /\ call' = NoCall
    /\ UNCHANGED <<rays, zBuffer, sprites, renderMode, frames, depthLog, strips, drawn, drawOrder, wallStrips, loading, fightVars>>

\* the keyup listener: the arrow keys, and the key of toggleRenderMode
keyup ==
    /\ player # null
    /\ ~(player.health <= 0 /\ renderMode = 0)
    /\ \E keyCode \in {37, 38, 39, 40, 190} :
        /\ player.health <= 0 => keyCode = 190
        /\ player' = IF keyCode \in {38, 40} THEN [player EXCEPT !.movementInput = 0]
                     ELSE IF keyCode \in {37, 39} THEN [player EXCEPT !.rotationInput = 0]
                     ELSE player
        /\ renderMode' = IF keyCode = 190 THEN (IF renderMode = 0 THEN 1 ELSE 0)
                         ELSE renderMode
    /\ call' = NoCall
    /\ UNCHANGED <<rays, zBuffer, sprites, frames, depthLog, strips, drawn, drawOrder, wallStrips, loading, fightVars>>

\* the globals after the frame whose result is g
rendersAs(g) ==
    /\ player' = g.player
    /\ rays' = g.rays
    /\ zBuffer' = g.zBuffer
    /\ sprites' = g.sprites
    /\ depthLog' = g.depthLog
    /\ strips' = g.strips
    /\ drawn' = g.drawn
    /\ drawOrder' = g.drawOrder
    /\ wallStrips' = g.wallStrips

\* mainGameLoop(), one tick of setInterval(mainGameLoop, ...) or a call on
\* its own: it returns at once while the context, the level, an asset or
\* the player is missing, and computes the frame otherwise
mainGameLoop ==
    IF ~framesCanRun(loading, player)
    THEN /\ call' = [op |-> "mainGameLoop", done |-> TRUE]
         /\ UNCHANGED gameVars
    ELSE /\ frames < MaxFrames
         /\ \E g \in {frame(game)} : rendersAs(g)
         /\ frames' = frames + 1
         /\ call' = NoCall
         /\ UNCHANGED <<renderMode, loading, fightVars>>

\* a call of normalizeAngle on its own, on the game as constructed
CallNormalizeAngle ==
    /\ frames = 0 /\ call = NoCall
    /\ player.movementInput = 0 /\ player.rotationInput = 0 /\ renderMode = 0
    /\ \E angle \in AngleInputs :
        call' = [op |-> "normalizeAngle", done |-> TRUE, angle |-> angle,
                 result |-> normalizeAngle(angle)]
    /\ UNCHANGED gameVars

Next == keydown \/ keyup \/ mainGameLoop \/ CallNormalizeAngle

Spec == Init /\ [][Next]_vars

\* the textures of the atlas img/walls.png have the ids 1..AtlasTextures
AtlasTextures == 4

\* ------------------------------------------------------- the game, later on

\* frames of the walk towards the ammo pack before the run
WalkFrames == 12

\* the globals after initializeGameObjects, as one record
gameObjects(playerStartSpot, ammoSpot, healthSpot) ==
    [ player |-> Player(TileCentre(playerStartSpot[2]), TileCentre(playerStartSpot[1])),
      rays |-> PlayerRays(TileCentre(playerStartSpot[2]), TileCentre(playerStartSpot[1]), I(0)),
      zBuffer |-> [c \in 1..canvasWidth |-> PosInf],
      sprites |-> << Sprite(1, TileCentre(ammoSpot[2]), TileCentre(ammoSpot[1]),
                            "ammo", Q(tileSize, 3)),
                     Sprite(2, TileCentre(healthSpot[2]), TileCentre(healthSpot[1]),
                            "health", Div(I(tileSize), Q(5, 2))) >>,
      renderMode |-> 0, depthLog |-> <<>>, strips |-> {}, drawn |-> {},
      drawOrder |-> <<>>, wallStrips |-> {} ]

\* the game with the up arrow held (Player.startMovingForward)
walking(g) == [g EXCEPT !.player.movementInput = 1]

\* the game as constructed, the player on the spot <<1, 1>> and the ammo pack
\* on <<1, 2>>, the up arrow held; the frames of the walk are counted up to 0
WalkInit ==
    /\ call = NoCall
    /\ frames = -WalkFrames
    /\ \E healthSpot \in HealthSpots :
       \E g \in {walking(gameObjects(<<1, 1>>, <<1, 2>>, healthSpot))} :
        /\ player = g.player
        /\ rays = g.rays
        /\ zBuffer = g.zBuffer
        /\ sprites = g.sprites
        /\ renderMode = g.renderMode
        /\ depthLog = g.depthLog
        /\ strips = g.strips
        /\ drawn = g.drawn
        /\ drawOrder = g.drawOrder
        /\ wallStrips = g.wallStrips
    /\ loading = Loaded
    /\ NoFight

\* the walk: WalkFrames ticks of mainGameLoop with no key event between them
Walk == frames < 0 /\ mainGameLoop

\* the run after the walk
Run == frames >= 0 /\ Next

WalkNext == Walk \/ Run

WalkSpec == WalkInit /\ [][WalkNext]_vars

\* ------------------------------------------------------- the game under fire

\* frames in which an enemy projectile reaches the player, one in each,
\* before the run: the health of 100 is gone after 50 of them
HurtFrames == 50

\* the game as constructed with an arrow key held or none; the frames under
\* fire are counted up to 0
HurtInit ==
    /\ call = NoCall
    /\ frames = -HurtFrames
    /\ loading = Loaded
    /\ NoFight
    /\ \E playerStartSpot \in EmptySpots({}) \cap PlayerSpots :
       \E ammoSpot \in EmptySpots({playerStartSpot}) \cap AmmoSpots :
       \E healthSpot \in EmptySpots({playerStartSpot, ammoSpot}) \cap HealthSpots :
       \E movementInput \in {0, 1} : \E rotationInput \in {-1, 0, 1} :
       \E g \in {gameObjects(playerStartSpot, ammoSpot, healthSpot)} :
        /\ player = [g.player EXCEPT !.movementInput = movementInput,
                                     !.rotationInput = rotationInput]
        /\ rays = g.rays
        /\ zBuffer = g.zBuffer
        /\ sprites = g.sprites
        /\ renderMode = g.renderMode
        /\ depthLog = g.depthLog
        /\ strips = g.strips
        /\ drawn = g.drawn
        /\ drawOrder = g.drawOrder
        /\ wallStrips = g.wallStrips

\* a tick of mainGameLoop in which an enemy projectile reaches the player
mainGameLoopUnderFire ==
    /\ framesCanRun(loading, player)
    /\ frames < MaxFrames
    /\ \E g \in {frameUnderFire(game)} : rendersAs(g)
    /\ frames' = frames + 1
    /\ call' = NoCall
    /\ UNCHANGED <<renderMode, loading, fightVars>>

\* the frames under fire, with no key event between them
Hurt == frames < 0 /\ mainGameLoopUnderFire

\* the frames after them
Aftermath == frames >= 0 /\ mainGameLoop

HurtNext == Hurt \/ Aftermath

HurtSpec == HurtInit /\ [][HurtNext]_vars

\* ------------------------------------------------------ the start of the game

\* frames drawn in a run that starts with the loading
BootFrames == 1

\* the page is loaded and Start has not been clicked: var player; var
\* sprites = []; var zBuffer = []; let assetsToLoadCount = 0
BootInit ==
    /\ call = NoCall
    /\ player = null
    /\ rays = <<>>
    /\ zBuffer = <<>>
    /\ sprites = <<>>
    /\ renderMode = 0
    /\ frames = 0
    /\ depthLog = <<>>
    /\ strips = {}
    /\ drawn = {}
    /\ drawOrder = <<>>
    /\ wallStrips = {}
    /\ loading = NotStarted
    /\ NoFight

\* initializeGame(), called once by the Start button of the menu
initializeGame ==
    /\ ~loading.gameContext
    /\ loading' = gameStarted(loading)
    /\ call' = NoCall
    /\ UNCHANGED <<player, rays, zBuffer, sprites, renderMode, frames, depthLog, strips, drawn, drawOrder, wallStrips, fightVars>>

\* the spots that findRandomEmptySpotCoordinates can draw for the player,
\* the ammo pack and the health pack
SpotsDrawn ==
    { spots \in PlayerSpots \X AmmoSpots \X HealthSpots :
        /\ spots[1] \in EmptySpots({})
        /\ spots[2] \in EmptySpots({spots[1]})
        /\ spots[3] \in EmptySpots({spots[1], spots[2]}) }

\* the globals after initializeGameObjects, for every drawing of the spots
gameObjectsDrawn ==
    { gameObjects(spots[1], spots[2], spots[3]) : spots \in SpotsDrawn }

\* initializeGameObjects() on the loading l: the level, the player on a spot
\* drawn at random, the depth buffer, the sprites of initializeStaticSprites,
\* initializeEnemies, and setInterval(mainGameLoop, ...)
gameObjectsInitialized(l) ==
    \E g \in gameObjectsDrawn :
    \E ls \in {initializeStaticSprites(l, <<>>, g.sprites)} :
        /\ player' = g.player
        /\ rays' = g.rays
        /\ zBuffer' = g.zBuffer
        /\ sprites' = ls[2]
        /\ loading' = [initializeEnemies(ls[1]) EXCEPT !.gameObjects = @ + 1,
                                                       !.intervals = @ + 1]
        /\ UNCHANGED <<renderMode, frames, depthLog, strips, drawn, drawOrder, wallStrips, fightVars>>

\* the load or error event of asset a: the callback counts it and, with
\* every asset counted, calls initializeGameObjects
assetReported(a, outcome) ==
    /\ loading.images[a] = "pending"
    /\ call' = NoCall
    /\ IF allAssetsIn(assetCounted(loading, a, outcome))
       THEN gameObjectsInitialized(assetCounted(loading, a, outcome))
       ELSE /\ loading' = assetCounted(loading, a, outcome)
            /\ UNCHANGED <<player, rays, zBuffer, sprites, renderMode, frames, depthLog, strips, drawn, drawOrder, wallStrips, fightVars>>

\* image.onload = () => onAssetLoaded(...)
onAssetLoaded == \E a \in Assets : assetReported(a, "complete")

\* image.onerror = () => onAssetLoadError(...)
onAssetLoadError == \E a \in Assets : assetReported(a, "broken")

\* setTimeout(initializeStaticSprites, 250) fires
retryStaticSprites ==
    /\ "initializeStaticSprites" \in loading.timeouts
    /\ \E g \in gameObjectsDrawn :
       \E ls \in {initializeStaticSprites(timeoutFired(loading, "initializeStaticSprites"),
                                          sprites, g.sprites)} :
        /\ loading' = ls[1]
        /\ sprites' = ls[2]
    /\ call' = NoCall
    /\ UNCHANGED <<player, rays, zBuffer, renderMode, frames, depthLog, strips, drawn, drawOrder, wallStrips, fightVars>>

\* setTimeout(initializeEnemies, 250) fires
retryEnemies ==
    /\ "initializeEnemies" \in loading.timeouts
    /\ loading' = initializeEnemies(timeoutFired(loading, "initializeEnemies"))
    /\ call' = NoCall
    /\ UNCHANGED <<player, rays, zBuffer, sprites, renderMode, frames, depthLog, strips, drawn, drawOrder, wallStrips, fightVars>>

\* a call of mainGameLoop, the first BootFrames frames
BootFrame == frames < BootFrames /\ mainGameLoop

BootNext ==
    \/ initializeGame
    \/ onAssetLoaded
    \/ onAssetLoadError
    \/ retryStaticSprites
    \/ retryEnemies
    \/ keydown
    \/ BootFrame

BootSpec == BootInit /\ [][BootNext]_vars

\* every image requested reports, by its load or its error event, and every
\* timer that is pending fires
BootLive ==
    /\ BootInit /\ [][BootNext]_vars
    /\ WF_vars(initializeGame)
    /\ WF_vars(onAssetLoaded \/ onAssetLoadError)
    /\ WF_vars(retryStaticSprites)
    /\ WF_vars(retryEnemies)

\* ------------------------------------------------------------------ the fight

\* Enemy: this.viewDistance, this.attackRange, this.attackStopDistance
viewDistance == 100

attackRange == 100

attackStopDistance == 100

\* globalSpriteList.indexOf(item.sprite), from 1, and 0 for -1; a Sprite
\* object is the id given to it when it was constructed
indexOf(spriteList, id) ==
    IF \E k \in 1..Len(spriteList) : spriteList[k].id = id
    THEN CHOOSE k \in 1..Len(spriteList) : spriteList[k].id = id
    ELSE 0

\* this.sprite.x = this.x; this.sprite.y = this.y
spriteMoved(spriteList, id, x, y) ==
    [ k \in 1..Len(spriteList) |->
        IF spriteList[k].id = id THEN [spriteList[k] EXCEPT !.x = x, !.y = y]
        ELSE spriteList[k] ]

\* this.sprite.visible = visible
spriteShown(spriteList, id, visible) ==
    [ k \in 1..Len(spriteList) |->
        IF spriteList[k].id = id THEN [spriteList[k] EXCEPT !.visible = visible]
        ELSE spriteList[k] ]

\* globalSpriteList.splice(spriteIndex, 1) when spriteIndex > -1
spliced(spriteList, spriteIndex) ==
    IF spriteIndex = 0 THEN spriteList
    ELSE SubSeq(spriteList, 1, spriteIndex - 1)
            \o SubSeq(spriteList, spriteIndex + 1, Len(spriteList))

\* the tile test of Projectile.checkWallCollision, EnemyProjectile.
\* checkWallCollision and Enemy.canMoveTo: the tile of (x, y) is outside the
\* map or collides
tileBlocked(x, y) ==
    \/ CellOutside(gameLevel, Floor(Div(x, I(tileSize))), Floor(Div(y, I(tileSize))))
    \/ hasCollision(gameLevel, Floor(Div(x, I(tileSize))), Floor(Div(y, I(tileSize))))

\* checkOutOfBounds of both projectiles
outOfBounds(x, y) ==
    \/ Lt(x, I(-tileSize)) \/ Gt(x, I(gameLevel.mapWidth * tileSize + tileSize))
    \/ Lt(y, I(-tileSize)) \/ Gt(y, I(gameLevel.mapHeight * tileSize + tileSize))

\* new Enemy(x, y, enemyImage, gameContext, sprite): wanderAngle is
\* Math.random() * 2 * Math.PI; lastAttackTime is 0 for a time long ago and
\* 1 for the time of an attack whose cooldown may not be over
Enemy(sprite, x, y, wanderAngle) ==
    [ sprite |-> sprite, x |-> x, y |-> y, speed |-> Q(7, 10),
      wanderAngle |-> wanderAngle, state |-> "wandering",
      health |-> 100, isAlive |-> TRUE, lastAttackTime |-> 0 ]

\* Enemy.canMoveTo(targetX, targetY)
canMoveTo(targetX, targetY) ==
    \A point \in { <<targetX, targetY>>,
                   <<Add(targetX, Q(tileSize, 4)), targetY>>,
                   <<Sub(targetX, Q(tileSize, 4)), targetY>>,
                   <<targetX, Add(targetY, Q(tileSize, 4))>>,
                   <<targetX, Sub(targetY, Q(tileSize, 4))>> } :
        ~tileBlocked(point[1], point[2])

\* Enemy.move(dx, dy): its return value
moves(enemy, dx, dy) == enemy.isAlive /\ canMoveTo(Add(enemy.x, dx), Add(enemy.y, dy))

\* a dead enemy moving like one alive
moveOfTheDead(enemy, dx, dy) ==
    IF canMoveTo(Add(enemy.x, dx), Add(enemy.y, dy))
    THEN [enemy EXCEPT !.x = Add(enemy.x, dx), !.y = Add(enemy.y, dy)]
    ELSE enemy

\* Enemy.move(dx, dy): the enemy afterwards
move(enemy, dx, dy) ==
    IF moves(enemy, dx, dy)
    THEN [enemy EXCEPT !.x = Add(enemy.x, dx), !.y = Add(enemy.y, dy)]
    ELSE enemy

\* Enemy.wander: the change of direction when wanderChangeInterval is over
wanderTurned(enemy, env) ==
    IF env.wanderDue
    THEN [enemy EXCEPT !.wanderAngle = normalizeAngle(Add(enemy.wanderAngle, env.turn))]
    ELSE enemy

\* Enemy.wander: the move, and a random direction when it is blocked
wanderMoved(enemy, env, deltaX, deltaY) ==
    IF moves(enemy, deltaX, deltaY) THEN move(enemy, deltaX, deltaY)
    ELSE [enemy EXCEPT !.wanderAngle = env.random]

wanderAlong(enemy, env) ==
    wanderMoved(enemy, env, Mul(Cos(enemy.wanderAngle), enemy.speed),
                Mul(Sin(enemy.wanderAngle), enemy.speed))

\* Enemy.wander()
wander(enemy, env) == wanderAlong(wanderTurned(enemy, env), env)

\* Enemy.chase: the move towards the player
chaseMoved(enemy, env, deltaX, deltaY) ==
    IF moves(enemy, deltaX, deltaY) THEN move(enemy, deltaX, deltaY)
    ELSE [enemy EXCEPT !.state = "wandering", !.wanderAngle = env.random]

chaseAlong(enemy, env, angleToPlayer) ==
    chaseMoved(enemy, env, Mul(Cos(angleToPlayer), enemy.speed),
               Mul(Sin(angleToPlayer), enemy.speed))

\* Enemy.chase()
chase(enemy, p, env) ==
    IF ~enemy.isAlive THEN enemy
    ELSE IF Le(distanceBetweenPoints(enemy.x, enemy.y, p.x, p.y), I(attackStopDistance))
    THEN [enemy EXCEPT !.state = "attacking"]
    ELSE chaseAlong(enemy, env, Atan2(Sub(p.y, enemy.y), Sub(p.x, enemy.x)))

\* Enemy.canSeePlayer: lineOfSightSteps
lineOfSightSteps(distanceToPlayer) ==
    IF Floor(Div(distanceToPlayer, Q(tileSize, 4)))[1] < 1 THEN 1
    ELSE Floor(Div(distanceToPlayer, Q(tileSize, 4)))[1]

\* Enemy.canSeePlayer: no point of the line of sight is in a wall
sightClear(enemy, p, steps) ==
    \A i \in 1..(steps - 1) :
        ~hasCollision(gameLevel,
            Floor(Div(Add(enemy.x, Mul(Div(Sub(p.x, enemy.x), I(steps)), I(i))), I(tileSize))),
            Floor(Div(Add(enemy.y, Mul(Div(Sub(p.y, enemy.y), I(steps)), I(i))), I(tileSize))))

\* Enemy.canSeePlayer()
canSeePlayer(enemy, p) ==
    /\ ~Gt(distanceBetweenPoints(enemy.x, enemy.y, p.x, p.y), I(viewDistance))
    /\ sightClear(enemy, p,
                  lineOfSightSteps(distanceBetweenPoints(enemy.x, enemy.y, p.x, p.y)))

\* Enemy.update: the state after the tests of the sight and the distance
stateSeen(state, playerIsVisible, distanceToPlayer) ==
    CASE state = "attacking" ->
            IF ~playerIsVisible \/ Gt(distanceToPlayer, I(attackRange)) THEN "chasing"
            ELSE state
      [] state = "chasing" ->
            IF ~playerIsVisible THEN "wandering"
            ELSE IF Le(distanceToPlayer, I(attackStopDistance)) THEN "attacking"
            ELSE state
      [] OTHER ->
            IF playerIsVisible /\ Le(distanceToPlayer, I(attackRange))
            THEN (IF Le(distanceToPlayer, I(attackStopDistance)) THEN "attacking"
                  ELSE "chasing")
            ELSE IF playerIsVisible THEN "chasing"
            ELSE state

\* Enemy.update: playerIsVisible ? distanceBetweenPoints(...) : Infinity
distanceSeen(enemy, p, playerIsVisible) ==
    IF playerIsVisible THEN distanceBetweenPoints(enemy.x, enemy.y, p.x, p.y) ELSE PosInf

\* Enemy.update: the enemy with the state decided
decided(enemy, p) ==
    [enemy EXCEPT !.state = stateSeen(enemy.state, canSeePlayer(enemy, p),
                                      distanceSeen(enemy, p, canSeePlayer(enemy, p)))]

\* new Projectile(startX, startY, angle, speed, image, context); sprite is
\* the id of its Sprite
Projectile(sprite, startX, startY, angle, speed) ==
    [ sprite |-> sprite, x |-> startX, y |-> startY, angle |-> angle, speed |-> speed,
      radius |-> Q(tileSize, 8), isActive |-> TRUE ]

\* new EnemyProjectile(startX, startY, angle, speed, image, context)
EnemyProjectile(sprite, startX, startY, angle, speed) ==
    [ sprite |-> sprite, x |-> startX, y |-> startY, angle |-> angle, speed |-> speed,
      radius |-> Q(tileSize, 9), isActive |-> TRUE ]

\* new RisingSpriteEffect(startX, startY, image, context, riseSpeed, duration)
RisingSpriteEffect(sprite, startX, startY, riseSpeed) ==
    [ sprite |-> sprite, x |-> startX, y |-> startY, riseSpeed |-> riseSpeed,
      isActive |-> TRUE ]

\* typeof risingEffects !== 'undefined' in Enemy.takeDamage: the scripts
\* declare the array risingSpriteEffects and nothing named risingEffects
risingEffectsDeclared == FALSE

\* deactivate() of the item k of the list named kind: isActive and the
\* visibility of its sprite are false from then on
deactivate(g, kind, k) ==
    [g EXCEPT ![kind][k].isActive = FALSE,
              !.sprites = spriteShown(g.sprites, g[kind][k].sprite, FALSE),
              !.deactivated = g.deactivated \cup {[sprite |-> g[kind][k].sprite, of |-> kind]}]

\* the first lines of update() of both projectiles: the step along the
\* angle, and the sprite moved with it
flown(g, kind, k, x, y) ==
    [g EXCEPT ![kind][k].x = x, ![kind][k].y = y,
              !.sprites = spriteMoved(g.sprites, g[kind][k].sprite, x, y)]

fly(g, kind, k) ==
    flown(g, kind, k,
          Add(g[kind][k].x, Mul(Cos(g[kind][k].angle), g[kind][k].speed)),
          Add(g[kind][k].y, Mul(Sin(g[kind][k].angle), g[kind][k].speed)))

\* checkWallCollision() of both projectiles
checkWallCollision(g, kind, k) ==
    IF g[kind][k].isActive /\ tileBlocked(g[kind][k].x, g[kind][k].y)
    THEN deactivate(g, kind, k)
    ELSE g

\* checkOutOfBounds() of both projectiles
checkOutOfBounds(g, kind, k) ==
    IF g[kind][k].isActive /\ outOfBounds(g[kind][k].x, g[kind][k].y)
    THEN deactivate(g, kind, k)
    ELSE g

\* the damage done by the projectile of the sprite by on the target (the id
\* of the sprite of an enemy, 0 for the player), written to the history
logged(g, by, on, before, after) ==
    [g EXCEPT !.damageLog = Append(g.damageLog,
                [by |-> by, on |-> on, before |-> before, after |-> after])]

\* Enemy.takeDamage: the death-angel effect; its push on the undeclared
\* array cannot be reached
withAngel(g, enemy) ==
    IF risingEffectsDeclared
    THEN [g EXCEPT !.sprites = Append(g.sprites,
                        Sprite(g.spawned + 1, enemy.x, enemy.y, "none", Q(3 * tileSize, 4))),
                   !.spawned = g.spawned + 1]
    ELSE g

\* Enemy.takeDamage of an enemy alive: the health, clamped at 0, and isAlive
damaged(enemy, damageAmount) ==
    [enemy EXCEPT !.health = IF enemy.health - damageAmount <= 0 THEN 0
                             ELSE enemy.health - damageAmount,
                  !.isAlive = enemy.health - damageAmount > 0]

\* Enemy.takeDamage: the death, with enemyDeadImage loaded
died(g, i) ==
    withAngel([g EXCEPT !.sprites = spriteShown(g.sprites, g.enemies[i].sprite, TRUE)],
              g.enemies[i])

\* the enemy damaged whether it is alive or not
Enemy_takeDamageOfTheDead(g, i, damageAmount) ==
    [g EXCEPT !.enemies[i] = damaged(g.enemies[i], damageAmount)]

\* Enemy.takeDamage(damageAmount) of the enemy i
Enemy_takeDamage(g, i, damageAmount) ==
    IF ~g.enemies[i].isAlive THEN g
    ELSE IF g.enemies[i].health - damageAmount <= 0
    THEN died([g EXCEPT !.enemies[i] = damaged(g.enemies[i], damageAmount)], i)
    ELSE [g EXCEPT !.enemies[i] = damaged(g.enemies[i], damageAmount)]

\* the enemies within the radius, the dead among them
enemiesInReachOfTheDead(g, k) ==
    { i \in 1..Len(g.enemies) :
        Lt(distanceBetweenPoints(g.playerProjectiles[k].x, g.playerProjectiles[k].y,
                                 g.enemies[i].x, g.enemies[i].y),
           Add(g.playerProjectiles[k].radius, Q(tileSize, 3))) }

\* Projectile.checkEnemyCollision: the enemies alive within the radius
enemiesInReach(g, k) ==
    { i \in 1..Len(g.enemies) :
        /\ g.enemies[i].isAlive
        /\ Lt(distanceBetweenPoints(g.playerProjectiles[k].x, g.playerProjectiles[k].y,
                                    g.enemies[i].x, g.enemies[i].y),
              Add(g.playerProjectiles[k].radius, Q(tileSize, 3))) }

\* the loop without its break: every enemy within the radius is hit
enemiesHitAll(g, k) == enemiesInReach(g, k)

\* Projectile.checkEnemyCollision: the loop ends with the first enemy hit
enemiesHit(g, k) ==
    { i \in enemiesInReach(g, k) : \A j \in enemiesInReach(g, k) : i <= j }

\* Projectile.checkEnemyCollision: the hit of the enemy i: deactivate(),
\* enemy.takeDamage(30), player.score += 5
hit(g, k, i) ==
    logged([Enemy_takeDamage(deactivate(g, "playerProjectiles", k), i, 30)
                EXCEPT !.player.score = g.player.score + 5],
           g.playerProjectiles[k].sprite, g.enemies[i].sprite,
           g.enemies[i].health,
           Enemy_takeDamage(g, i, 30).enemies[i].health)

\* the hits of the enemies of the set, in the order of the array
RECURSIVE hits(_, _, _, _)
hits(g, k, i, targets) ==
    IF i > Len(g.enemies) THEN g
    ELSE hits(IF i \in targets THEN hit(g, k, i) ELSE g, k, i + 1, targets)

\* Projectile.checkEnemyCollision()
checkEnemyCollision(g, k) ==
    IF ~g.playerProjectiles[k].isActive \/ Len(g.enemies) = 0 THEN g
    ELSE hits(g, k, 1, enemiesHit(g, k))

\* Projectile.update() of the player projectile k
Projectile_update(g, k) ==
    IF ~g.playerProjectiles[k].isActive THEN g
    ELSE checkOutOfBounds(
            checkEnemyCollision(
                checkWallCollision(fly(g, "playerProjectiles", k), "playerProjectiles", k), k),
            "playerProjectiles", k)

\* EnemyProjectile.checkPlayerCollision: deactivate(), player.takeDamage(2)
playerHit(g, k) ==
    logged([deactivate(g, "enemyProjectiles", k) EXCEPT !.player = takeDamage(g.player, 2)],
           g.enemyProjectiles[k].sprite, 0, g.player.health, takeDamage(g.player, 2).health)

\* EnemyProjectile.checkPlayerCollision()
checkPlayerCollision(g, k) ==
    IF ~g.enemyProjectiles[k].isActive \/ g.player.health = 0 THEN g
    ELSE IF Lt(distanceBetweenPoints(g.enemyProjectiles[k].x, g.enemyProjectiles[k].y,
                                     g.player.x, g.player.y),
               Add(g.enemyProjectiles[k].radius, Q(tileSize, 3)))
    THEN playerHit(g, k)
    ELSE g

\* EnemyProjectile.update() of the enemy projectile k
EnemyProjectile_update(g, k) ==
    IF ~g.enemyProjectiles[k].isActive THEN g
    ELSE checkOutOfBounds(
            checkPlayerCollision(
                checkWallCollision(fly(g, "enemyProjectiles", k), "enemyProjectiles", k), k),
            "enemyProjectiles", k)

\* RisingSpriteEffect.update: the rise
risen(g, k, y) ==
    [g EXCEPT !.risingSpriteEffects[k].y = y,
              !.sprites = spriteMoved(g.sprites, g.risingSpriteEffects[k].sprite,
                                      g.risingSpriteEffects[k].x, y)]

\* RisingSpriteEffect.update() of the effect k; env.effectOver is
\* Date.now() - this.startTime > this.duration
RisingSpriteEffect_update(g, k, env) ==
    IF ~g.risingSpriteEffects[k].isActive THEN g
    ELSE IF env.effectOver
    THEN deactivate(risen(g, k, Sub(g.risingSpriteEffects[k].y,
                                    g.risingSpriteEffects[k].riseSpeed)),
                    "risingSpriteEffects", k)
    ELSE risen(g, k, Sub(g.risingSpriteEffects[k].y, g.risingSpriteEffects[k].riseSpeed))

\* item.update() of the item k of the list named kind
itemUpdated(g, kind, k, env) ==
    CASE kind = "playerProjectiles" -> Projectile_update(g, k)
      [] kind = "enemyProjectiles" -> EnemyProjectile_update(g, k)
      [] OTHER -> RisingSpriteEffect_update(g, k, env)

\* the callback of the filter that leaves the sprite of an inactive item in
\* the list of the sprites
keptInSprites(g, kind, k) == g

\* updateAndFilterActiveItems, the callback after item.update(): the sprite
\* of an item that is not active is taken out of the list of the sprites
filtered(g, kind, k) ==
    IF ~g[kind][k].isActive
    THEN [g EXCEPT !.sprites = spliced(g.sprites, indexOf(g.sprites, g[kind][k].sprite))]
    ELSE g

\* updateAndFilterActiveItems: the callback on the items from k on
RECURSIVE itemsUpdated(_, _, _, _)
itemsUpdated(g, kind, k, env) ==
    IF k > Len(g[kind]) THEN g
    ELSE itemsUpdated(filtered(itemUpdated(g, kind, k, env), kind, k), kind, k + 1, env)

\* the items of the list that are active, in their order
activeItems(items) == SelectSeq(items, LAMBDA item : item.isActive)

\* updateAndFilterActiveItems: the items for which the callback returns true
activeOnly(g, kind) == [g EXCEPT ![kind] = activeItems(g[kind])]

\* list = updateAndFilterActiveItems(list, sprites)
updateAndFilterActiveItems(g, kind, env) == activeOnly(itemsUpdated(g, kind, 1, env), kind)

\* Enemy.attack: the projectile fired towards the player, pushed on
\* enemyProjectiles and its sprite on sprites
fired(g, i, angleToPlayer) ==
    [g EXCEPT !.enemies[i].lastAttackTime = 1,
              !.enemyProjectiles = Append(g.enemyProjectiles,
                    EnemyProjectile(g.spawned + 1,
                        Add(g.enemies[i].x, Mul(Cos(angleToPlayer), Q(2 * tileSize, 5))),
                        Add(g.enemies[i].y, Mul(Sin(angleToPlayer), Q(2 * tileSize, 5))),
                        angleToPlayer, Q(9, 2))),
              !.sprites = Append(g.sprites,
                    Sprite(g.spawned + 1,
                        Add(g.enemies[i].x, Mul(Cos(angleToPlayer), Q(2 * tileSize, 5))),
                        Add(g.enemies[i].y, Mul(Sin(angleToPlayer), Q(2 * tileSize, 5))),
                        "none", Div(I(tileSize), Q(7, 2)))),
              !.spawned = g.spawned + 1]

\* the attack of an enemy whether it is alive or not
attackOfTheDead(g, i, env) ==
    fired(g, i, Atan2(Sub(g.player.y, g.enemies[i].y), Sub(g.player.x, g.enemies[i].x)))

\* Enemy.attack() of the enemy i; env.attackCooled is currentTime -
\* this.lastAttackTime > this.attackCooldown after an attack
attack(g, i, env) ==
    IF ~g.enemies[i].isAlive THEN g
    ELSE IF \/ Gt(distanceBetweenPoints(g.enemies[i].x, g.enemies[i].y,
                                        g.player.x, g.player.y), I(attackRange))
            \/ ~canSeePlayer(g.enemies[i], g.player)
    THEN [g EXCEPT !.enemies[i].state = "chasing"]
    ELSE IF g.enemies[i].lastAttackTime = 0 \/ env.attackCooled
    THEN fired(g, i, Atan2(Sub(g.player.y, g.enemies[i].y), Sub(g.player.x, g.enemies[i].x)))
    ELSE g

\* Enemy.update: wander(), chase() or attack() by the state
behaved(g, i, env) ==
    CASE g.enemies[i].state = "wandering" ->
            [g EXCEPT !.enemies[i] = wander(g.enemies[i], env)]
      [] g.enemies[i].state = "chasing" ->
            [g EXCEPT !.enemies[i] = chase(g.enemies[i], g.player, env)]
      [] OTHER -> attack(g, i, env)

\* Enemy.update: this.sprite.x = this.x; this.sprite.y = this.y
spriteFollowed(g, i) ==
    [g EXCEPT !.sprites = spriteMoved(g.sprites, g.enemies[i].sprite,
                                      g.enemies[i].x, g.enemies[i].y)]

\* the update of an enemy whether it is alive or not
Enemy_updateOfTheDead(g, i, env) ==
    spriteFollowed(behaved([g EXCEPT !.enemies[i] = decided(g.enemies[i], g.player)], i, env), i)

\* Enemy.update() of the enemy i
Enemy_update(g, i, env) ==
    IF ~g.enemies[i].isAlive
    THEN [g EXCEPT !.sprites = spriteShown(g.sprites, g.enemies[i].sprite, TRUE)]
    ELSE spriteFollowed(
            behaved([g EXCEPT !.enemies[i] = decided(g.enemies[i], g.player)], i, env), i)

\* enemies.forEach(enemy => enemy.update()), from the enemy i on
RECURSIVE enemiesUpdated(_, _, _)
enemiesUpdated(g, i, env) ==
    IF i > Len(g.enemies) THEN g
    ELSE enemiesUpdated(Enemy_update(g, i, env), i + 1, env)

\* firePlayerProjectile: the projectile pushed on playerProjectiles and its
\* sprite on sprites, lastPlayerFireTime = currentTime, player.ammo -= 1
shot(g, ammo) ==
    [g EXCEPT !.fireReady = FALSE,
              !.player.ammo = ammo,
              !.playerProjectiles = Append(g.playerProjectiles,
                    Projectile(g.spawned + 1,
                        Add(g.player.x, Mul(Cos(g.player.rotationAngle), Q(3 * tileSize, 10))),
                        Add(g.player.y, Mul(Sin(g.player.rotationAngle), Q(3 * tileSize, 10))),
                        g.player.rotationAngle, I(3))),
              !.sprites = Append(g.sprites,
                    Sprite(g.spawned + 1,
                        Add(g.player.x, Mul(Cos(g.player.rotationAngle), Q(3 * tileSize, 10))),
                        Add(g.player.y, Mul(Sin(g.player.rotationAngle), Q(3 * tileSize, 10))),
                        "none", Q(tileSize, 8))),
              !.spawned = g.spawned + 1]

\* the shot fired without a look at the ammo
firePlayerProjectileWithoutAmmo(g) ==
    IF g.player.health <= 0 THEN g
    ELSE IF g.fireReady THEN shot(g, g.player.ammo - 1)
    ELSE g

\* the shot fired by the dead as well
firePlayerProjectileOfTheDead(g) ==
    IF g.player.ammo > 0 /\ g.fireReady THEN shot(g, g.player.ammo - 1)
    ELSE g

\* firePlayerProjectile(), with playerAttackOrbImage loaded: g.fireReady is
\* currentTime - lastPlayerFireTime >= FIRE_COOLDOWN
firePlayerProjectile(g) ==
    IF g.player.health <= 0 THEN g
    ELSE IF g.player.ammo > 0 /\ g.fireReady THEN shot(g, g.player.ammo - 1)
    ELSE g

\* the time that passes before a frame: the cooldown of the last shot may
\* be over by then
cooled(g, env) == [g EXCEPT !.fireReady = g.fireReady \/ env.fireCooled]

\* the player updated whether it is alive or not
playerUpdatedAlways(g) == Player_update(g)

\* mainGameLoop: if (player.health > 0) player.update()
playerUpdated(g) == IF g.player.health > 0 THEN Player_update(g) ELSE g

\* mainGameLoop: the three calls of updateAndFilterActiveItems
itemsOfTheFrame(g, env) ==
    updateAndFilterActiveItems(
        updateAndFilterActiveItems(
            updateAndFilterActiveItems(g, "playerProjectiles", env),
            "enemyProjectiles", env),
        "risingSpriteEffects", env)

\* mainGameLoop past its early returns: the updates of the frame, before
\* clearCanvas()
fought(g, env) == itemsOfTheFrame(enemiesUpdated(playerUpdated(cooled(g, env)), 1, env), env)

\* mainGameLoop() past its early returns, with the enemies, the projectiles
\* and the effects
fightFrame(g, env) == rendered(zBufferFilled(fought(g, env)))

\* Math.random() * 2 * Math.PI in Enemy.wander and Enemy.chase
RandomAngles == {I(9), I(27)}

\* (Math.random() - 0.5) * (Math.PI / 2) in Enemy.wander
WanderTurns == {I(-4), I(4)}

\* an enemy alive that does not see the player is in the game
Wanders(g) ==
    \E i \in 1..Len(g.enemies) :
        g.enemies[i].isAlive /\ ~canSeePlayer(g.enemies[i], g.player)

\* what the clock and Math.random() give in a frame: whether the intervals
\* of the wander, of the attack, of the shot and of the effect are over, the
\* turn of the wander and the random direction; only what the frame can read
Envs(g) ==
    { [wanderDue |-> w[1], turn |-> w[2], random |-> w[3],
       attackCooled |-> a, fireCooled |-> f, effectOver |-> o] :
        w \in (IF Wanders(g)
               THEN ({FALSE} \X {I(0)} \X RandomAngles) \cup ({TRUE} \X WanderTurns \X {I(9)})
               ELSE {<<FALSE, I(0), I(9)>>}),
        a \in (IF \E i \in 1..Len(g.enemies) : g.enemies[i].lastAttackTime = 1
               THEN BOOLEAN ELSE {FALSE}),
        f \in (IF g.fireReady THEN {FALSE} ELSE BOOLEAN),
        o \in (IF Len(g.risingSpriteEffects) > 0 THEN BOOLEAN ELSE {FALSE}) }

\* the globals of the fight as one record
fight ==
    [ player |-> player, rays |-> rays, zBuffer |-> zBuffer, sprites |-> sprites,
      renderMode |-> renderMode, depthLog |-> depthLog, strips |-> strips,
      drawn |-> drawn, drawOrder |-> drawOrder, wallStrips |-> wallStrips,
      enemies |-> enemies, playerProjectiles |-> playerProjectiles,
      enemyProjectiles |-> enemyProjectiles, risingSpriteEffects |-> risingSpriteEffects,
      fireReady |-> fireReady, spawned |-> spawned, deactivated |-> deactivated,
      damageLog |-> damageLog ]

\* the globals after the step of the fight whose result is g
fightsAs(g) ==
    /\ rendersAs(g)
    /\ enemies' = g.enemies
    /\ playerProjectiles' = g.playerProjectiles
    /\ enemyProjectiles' = g.enemyProjectiles
    /\ risingSpriteEffects' = g.risingSpriteEffects
    /\ fireReady' = g.fireReady
    /\ spawned' = g.spawned
    /\ deactivated' = g.deactivated
    /\ damageLog' = g.damageLog

\* frames of one fight
FightFrames == 3

\* the fights: the player one pixel from the east edge of the tile <<1, 1>>,
\* facing two enemies in the next tile: walking and turning or standing,
\* nearly well or nearly dead, with two shots or one, the first enemy nearly
\* dead or unhurt, the health pack in the tile of the enemies or far away;
\* and the player facing the west wall from 16 pixels, an enemy out of sight
\* near the north wall
FightStarts ==
    { [ place |-> <<I(99), I(75)>>, heading |-> 0, held |-> c[1],
        health |-> c[2], ammo |-> c[3], healthSpot |-> c[5],
        enemies |-> << [Enemy(3, I(125), I(75), I(9)) EXCEPT !.health = c[4]],
                       Enemy(4, I(130), I(75), I(9)) >> ] :
        c \in { <<1, 99, 2, 10, <<1, 2>> >>, <<0, 1, 1, 10, <<1, 2>> >>,
                <<1, 1, 2, 100, <<3, 3>> >>, <<0, 99, 2, 100, <<1, 2>> >> } }
    \cup
    { [ place |-> <<I(66), I(75)>>, heading |-> 18, held |-> 0,
        health |-> 100, ammo |-> 1, healthSpot |-> <<3, 3>>,
        enemies |-> << Enemy(3, I(175), I(63), wanderAngle) >> ] :
        wanderAngle \in {I(9), I(27)} }

\* the sprites of the enemies, pushed by initializeEnemies
enemySprites(list) ==
    [ i \in 1..Len(list) |-> Sprite(list[i].sprite, list[i].x, list[i].y, "none", I(tileSize)) ]

\* the game some time after initializeGameObjects, at a start of the fights:
\* the ammo pack on <<3, 1>>, no projectile in the air, the space bar up
FightInit ==
    /\ call = NoCall
    /\ frames = 0
    /\ loading = Loaded
    /\ \E start \in FightStarts :
       \E g \in {gameObjects(<<1, 1>>, <<3, 1>>, start.healthSpot)} :
        /\ player = [g.player EXCEPT !.x = start.place[1], !.y = start.place[2],
                                     !.rotationAngle = I(start.heading),
                                     !.movementInput = start.held,
                                     !.rotationInput = start.held,
                                     !.health = start.health, !.ammo = start.ammo]
        /\ rays = reanchored([g.player EXCEPT !.x = start.place[1], !.y = start.place[2],
                                              !.rotationAngle = I(start.heading)], g.rays)
        /\ zBuffer = g.zBuffer
        /\ sprites = g.sprites \o enemySprites(start.enemies)
        /\ renderMode = g.renderMode
        /\ depthLog = g.depthLog
        /\ strips = g.strips
        /\ drawn = g.drawn
        /\ drawOrder = g.drawOrder
        /\ wallStrips = g.wallStrips
        /\ enemies = start.enemies
        /\ spawned = 2 + Len(start.enemies)
    /\ playerProjectiles = <<>>
    /\ enemyProjectiles = <<>>
    /\ risingSpriteEffects = <<>>
    /\ playerShootInterval = 0
    /\ shootTimers = {}
    /\ fireReady = TRUE
    /\ deactivated = {}
    /\ damageLog = <<>>

\* startPlayerShooting starting a timer whatever timer is recorded
shootingCanStartAgain(interval, p) == p # null /\ p.health > 0

\* startPlayerShooting: if (playerShootInterval || !player || player.health
\* <= 0) return
shootingCanStart(interval, p) == interval = 0 /\ p # null /\ p.health > 0

\* the id that setInterval returns: a positive number that no running timer has
timerId(timers) == CHOOSE n \in 1..(Cardinality(timers) + 1) : n \notin timers

\* startPlayerShooting(): firePlayerProjectile(), and the timer set
startPlayerShooting ==
    /\ shootingCanStart(playerShootInterval, player)
    /\ \E g \in {firePlayerProjectile(fight)} : fightsAs(g)
    /\ playerShootInterval' = timerId(shootTimers)
    /\ shootTimers' = shootTimers \cup {timerId(shootTimers)}

\* stopPlayerShooting(): clearInterval(playerShootInterval);
\* playerShootInterval = null
stopPlayerShooting ==
    /\ playerShootInterval' = 0
    /\ shootTimers' = shootTimers \ {playerShootInterval}
    /\ UNCHANGED <<player, rays, zBuffer, sprites, depthLog, strips, drawn, drawOrder, wallStrips>>
    /\ UNCHANGED <<enemies, playerProjectiles, enemyProjectiles, risingSpriteEffects, fireReady, spawned, deactivated, damageLog>>

\* the keydown listener in the fight: the up arrow and the space bar, the
\* latter with its repeats while the key is held
keydownInFight ==
    /\ player # null
    /\ player.health > 0
    /\ \E keyCode \in {38, 32} :
        IF keyCode = 38
        THEN /\ player' = [player EXCEPT !.movementInput = 1]
             /\ UNCHANGED <<rays, zBuffer, sprites, depthLog, strips, drawn, drawOrder, wallStrips, fightVars>>
        ELSE startPlayerShooting
    /\ call' = NoCall
    /\ UNCHANGED <<renderMode, frames, loading>>

\* the keyup listener in the fight: the space bar
keyupInFight ==
    /\ player # null
    /\ player.health > 0
    /\ \E keyCode \in {32} : stopPlayerShooting
    /\ call' = NoCall
    /\ UNCHANGED <<renderMode, frames, loading>>

\* a tick of setInterval(firePlayerProjectile, FIRE_COOLDOWN)
shootingTick ==
    /\ shootTimers # {}
    /\ \E g \in {firePlayerProjectile(fight)} : fightsAs(g)
    /\ call' = NoCall
    /\ UNCHANGED <<renderMode, frames, loading, playerShootInterval, shootTimers>>

\* a tick of mainGameLoop in the fight
mainGameLoopInFight ==
    /\ framesCanRun(loading, player)
    /\ frames < FightFrames
    /\ \E env \in Envs(fight) : \E g \in {fightFrame(fight, env)} : fightsAs(g)
    /\ frames' = frames + 1
    /\ call' = NoCall
    /\ UNCHANGED <<renderMode, loading, playerShootInterval, shootTimers>>

FightNext == keydownInFight \/ keyupInFight \/ shootingTick \/ mainGameLoopInFight

FightSpec == FightInit /\ [][FightNext]_vars

\* ------------------------------------------------------- claims on the calls

\* the integer tile (tileX, tileY) is inside the map
TileInMap(level, tileX, tileY) ==
    tileX \in 0..(level.mapWidth - 1) /\ tileY \in 0..(level.mapHeight - 1)

\* C1: hasCollision(tileX, tileY) is true exactly when the tile is outside
\* [0,mapWidth) x [0,mapHeight) or its stored value is nonzero: for a tile
\* inside the map it is (mapData[tileY][tileX] != 0), outside it is true
C1_HasCollisionContract ==
    (call.op = "hasCollision" /\ call.done) =>
        call.result =
            IF TileInMap(call.level, call.tileX, call.tileY)
            THEN call.level.mapData[call.tileY + 1][call.tileX + 1] # 0
            ELSE TRUE

\* hasCollision has answered true for a tile just past the east edge
C1_Witness ==
    /\ call.op = "hasCollision" /\ call.done
    /\ call.tileX = call.level.mapWidth
    /\ call.tileY \in 0..(call.level.mapHeight - 1)
    /\ call.result = TRUE

\* C2: getTileValue(worldX, worldY) floor-divides the world coordinates by
\* the tile size and returns the stored value of that tile when it is inside
\* the map and 0 when it is outside, where hasCollision of the tile is true
C2_GetTileValueContract ==
    (call.op = "getTileValue" /\ call.done) =>
        LET tileX == call.worldX \div tileSize
            tileY == call.worldY \div tileSize
        IN  IF TileInMap(call.level, tileX, tileY)
            THEN call.result = call.level.mapData[tileY + 1][tileX + 1]
            ELSE /\ call.result = 0
                 /\ hasCollision(call.level, I(tileX), I(tileY))

\* getTileValue has answered 0 for a position one pixel west of the map,
\* beside a wall tile
C2_Witness ==
    /\ call.op = "getTileValue" /\ call.done
    /\ call.worldX = -1
    /\ call.worldY \in 0..(tileSize - 1)
    /\ call.level.mapData[1][1] # 0
    /\ call.result = 0

\* the cast of the call found a wall at a point with finite coordinates
CastHitWall ==
    /\ call.op = "cast" /\ call.done
    /\ call.ray.directDistance # I(MAX_SAFE_INTEGER)
    /\ IsFinite(call.ray.wallHitX) /\ IsFinite(call.ray.wallHitY)

\* the tile just beyond the grid-line crossing chosen by the cast
HitTileX ==
    IF ~call.ray.isHorizontal /\ call.absoluteAngle > HalfPi
       /\ call.absoluteAngle < 3 * HalfPi
    THEN Floor(Div(call.ray.wallHitX, I(tileSize)))[1] - 1
    ELSE Floor(Div(call.ray.wallHitX, I(tileSize)))[1]

HitTileY ==
    IF call.ray.isHorizontal /\ ~(call.absoluteAngle > 0 /\ call.absoluteAngle < Pi)
    THEN Floor(Div(call.ray.wallHitY, I(tileSize)))[1] - 1
    ELSE Floor(Div(call.ray.wallHitY, I(tileSize)))[1]

\* C3: after a cast that hits a wall, textureId is the stored map value of
\* the wall tile that was hit, on every map, also when the wall tiles carry
\* different ids
C3_TextureIdOfHitTile ==
    CastHitWall =>
        /\ TileInMap(call.level, HitTileX, HitTileY)
        /\ call.ray.textureId = call.level.mapData[HitTileY + 1][HitTileX + 1]

\* the larger of the two map dimensions
MaxDimension(level) ==
    IF level.mapWidth > level.mapHeight THEN level.mapWidth ELSE level.mapHeight

\* C7: a cast from an origin inside the map ends at every angle, the
\* multiples of pi/2 included: each of the two marches reports a wall or
\* leaves the grid within max(mapWidth, mapHeight) + 1 steps
C7_MarchesBounded ==
    (call.op = "cast" /\ call.done) =>
        /\ call.ray.hFound /\ call.ray.vFound
        /\ call.ray.hSteps <= MaxDimension(call.level) + 1
        /\ call.ray.vSteps <= MaxDimension(call.level) + 1

\* a cast straight down the long corridor has ended, its vertical march
\* after as many steps as there are tiles ahead
C7_Witness ==
    /\ call.op = "cast" /\ call.done
    /\ call.level.mapWidth = 15 /\ call.x = 50 /\ call.absoluteAngle = 0
    /\ call.ray.vFound /\ call.ray.hFound
    /\ call.ray.vSteps = 13

\* the level of the call is an empty room inside a closed ring of walls
EmptyRingRoom(level) ==
    \A ty \in 1..level.mapHeight : \A tx \in 1..level.mapWidth :
        (level.mapData[ty][tx] # 0) <=>
            (tx \in {1, level.mapWidth} \/ ty \in {1, level.mapHeight})

\* the distance from the origin of the call to the near face of the wall
\* ring along the axis of its angle
AnalyticAxisDistance ==
    CASE call.absoluteAngle = 0 -> (call.level.mapWidth - 1) * tileSize - call.x
      [] call.absoluteAngle = HalfPi -> (call.level.mapHeight - 1) * tileSize - call.y
      [] call.absoluteAngle = Pi -> call.x - tileSize
      [] OTHER -> call.y - tileSize

\* C8: a cast strictly along an axis from an origin in an open tile of an
\* empty room inside a wall ring gives a directDistance equal to the
\* analytic distance to the near face of the wall along that axis
C8_AxisDistanceAnalytic ==
    ( /\ call.op = "cast" /\ call.done
      /\ EmptyRingRoom(call.level)
      /\ call.absoluteAngle \in {0, HalfPi, Pi, 3 * HalfPi} ) =>
        call.ray.directDistance = I(AnalyticAxisDistance)

\* C9: after a cast, correctedDistance equals directDistance when the
\* offset of the ray is 0, on a hit and on the sentinel alike, and on a hit
\* correctedDistance = directDistance * cos(relativeAngleOffset)
C9_CorrectedDistance ==
    (call.op = "cast" /\ call.done) =>
        /\ call.relativeAngleOffset = 0 =>
               Eq(call.ray.correctedDistance, call.ray.directDistance)
        /\ call.ray.directDistance # I(MAX_SAFE_INTEGER) =>
               Eq(call.ray.correctedDistance,
                  Mul(call.ray.directDistance, Cos(I(call.relativeAngleOffset))))

\* a cast at the edge of the fan has hit a wall, the corrected distance
\* shorter than the direct one
C9_Witness ==
    /\ call.op = "cast" /\ call.done
    /\ call.relativeAngleOffset = -FOV_RADIANS_HALF
    /\ call.ray.directDistance # I(MAX_SAFE_INTEGER)
    /\ Lt(call.ray.correctedDistance, call.ray.directDistance)

\* a cast with offset 0 has left the map and stored the sentinel twice
C9_SentinelReached ==
    /\ call.op = "cast" /\ call.done
    /\ call.relativeAngleOffset = 0
    /\ call.ray.directDistance = I(MAX_SAFE_INTEGER)
    /\ call.ray.correctedDistance = I(MAX_SAFE_INTEGER)

\* -------------------------------------------------------- claims on the game

\* the sprite drawing d of this frame covers the screen column c
Covers(d, c) ==
    /\ c \in 0..(canvasWidth - 1)
    /\ d.startScreenPixelX <= c /\ c < d.endScreenPixelX

\* C4: in Sprite.draw, for every screen column covered by the sprite and
\* inside [0, canvasWidth), a strip of the sprite is drawn at that column if
\* and only if the depth-buffer value of the column is strictly greater than
\* the corrected distance of the sprite; no strip is drawn anywhere else
C4_StripIffNearer ==
    /\ \A d \in drawn : \A c \in 0..(canvasWidth - 1) :
        Covers(d, c) =>
            ([sprite |-> d.sprite, column |-> c] \in strips
                <=> Gt(zBuffer[c + 1], d.correctedDistance))
    /\ \A s \in strips :
        \E d \in drawn : d.sprite = s.sprite /\ Covers(d, s.column)

\* a frame in which one sprite has a strip at a covered column and a sprite
\* is hidden at a covered column by a wall that is nearer
C4_Witness ==
    /\ \E d \in drawn : \E c \in 0..(canvasWidth - 1) :
        Covers(d, c) /\ [sprite |-> d.sprite, column |-> c] \in strips
    /\ \E d \in drawn : \E c \in 0..(canvasWidth - 1) :
        /\ Covers(d, c) /\ [sprite |-> d.sprite, column |-> c] \notin strips
        /\ Le(zBuffer[c + 1], d.correctedDistance)

\* the places in the frame history of the events of kind op
EventsOf(op) == { k \in 1..Len(depthLog) : depthLog[k].op = op }

\* C5: in every rendered frame the depth buffer is reset before any ray is
\* cast and every ray then writes its column, so after the ray pass every
\* column holds the directDistance of this frame's ray for that column, a
\* finite value, never the reset value
C5_EveryColumnWritten ==
    frames > 0 =>
        /\ EventsOf("fill") = {1}
        /\ \A c \in 0..(canvasWidth - 1) :
            /\ \E k \in EventsOf("write") :
                depthLog[k].column = c /\ depthLog[k].by = c
            /\ rays[c + 1].screenColumn = c
            /\ rays[c + 1].x = player.x /\ rays[c + 1].y = player.y
            /\ rays[c + 1].absoluteAngle =
                normalizeAngle(Add(player.rotationAngle, rays[c + 1].relativeAngleOffset))
            /\ zBuffer[c + 1] = rays[c + 1].directDistance
            /\ IsFinite(zBuffer[c + 1])

\* the second frame is rendered, the player has turned and moved since the
\* first one, and the columns hold different depths
C5_Witness ==
    /\ frames = MaxFrames
    /\ player.rotationAngle # I(0)
    /\ player.x # TileCentre(1)
    /\ \E c \in 1..canvasWidth : zBuffer[c] # zBuffer[1]
    /\ \A c \in 1..canvasWidth : IsFinite(zBuffer[c])

\* C6: within every rendered frame, in both render modes, all writes of the
\* depth buffer by the rays of Player.draw come before the first read of the
\* depth buffer by a sprite
C6_WritesBeforeReads ==
    /\ \A i \in EventsOf("read") : \A j \in EventsOf("write") : j < i
    /\ EventsOf("read") # {} => Cardinality(EventsOf("write")) = canvasWidth
    /\ frames > 0 => Cardinality(EventsOf("write")) = canvasWidth

\* a frame in which a sprite has read the depth buffer, after the rays
C6_Witness ==
    /\ EventsOf("read") # {}
    /\ Cardinality(EventsOf("write")) = canvasWidth

\* the angle is in the half-open range [0, 2 Pi)
InRange(angle) == Ge(angle, I(0)) /\ Lt(angle, I(TwoPi))

\* C10: normalizeAngle returns a value in [0, 2 Pi) that is congruent to its
\* argument modulo 2 Pi, for every angle, and so the heading of the player
\* and the absoluteAngle of every ray are in [0, 2 Pi) in every state
C10_NormalizedInRange ==
    /\ call.op = "normalizeAngle" =>
        /\ InRange(call.result)
        /\ Rem(Sub(call.result, call.angle), I(TwoPi)) = I(0)
    /\ InRange(player.rotationAngle)
    /\ \A i \in 1..canvasWidth : InRange(rays[i].absoluteAngle)

\* C11: within one frame the sprites that are drawn are drawn farthest first:
\* of two sprites drawn in the same frame, the one drawn later is not
\* farther from the player than the one drawn earlier
C11_FarthestFirst ==
    \A i, j \in 1..Len(drawOrder) :
        i < j => Le(drawOrder[j].distanceToPlayer, drawOrder[i].distanceToPlayer)

\* a frame in which two sprites are drawn, at different distances, and the
\* one drawn first is the later one of the list of initializeStaticSprites
C11_Witness ==
    /\ Len(drawOrder) = 2
    /\ drawOrder[1].sprite = 2 /\ drawOrder[2].sprite = 1
    /\ Lt(drawOrder[2].distanceToPlayer, drawOrder[1].distanceToPlayer)

\* the sprite object with the identity id
SpriteWithId(id) == sprites[CHOOSE i \in 1..Len(sprites) : sprites[i].id = id]

\* the sprite is visible and its angle to the heading is below half the FOV
VisibleInView(sprite) ==
    /\ sprite.visible
    /\ Lt(AbsOf(sprite.angleRelativeToPlayerView), I(FOV_RADIANS_HALF))

BrightnessDone == call.op = "brightness" /\ call.done

\* C13: the brightness of a wall is a non-increasing function of
\* directDistance, lies in [ambient, 1], is 1 at distance 0 and is ambient at
\* every distance beyond the light radius; inside the radius it is
\* ambient + (1 - ambient) * (1 - distance / radius) ^ sharpness, clamped
C13_WallBrightness ==
    BrightnessDone =>
        /\ Le(AMBIENT_LIGHT_LEVEL, call.wall) /\ Le(call.wall, I(1))
        /\ call.distance = I(0) => call.wall = I(1)
        /\ Gt(call.distance, I(PLAYER_LIGHT_RADIUS)) => call.wall = AMBIENT_LIGHT_LEVEL
        /\ Le(call.distance, I(PLAYER_LIGHT_RADIUS)) =>
            call.wall = Max(AMBIENT_LIGHT_LEVEL,
                            Min(I(1),
                                Add(AMBIENT_LIGHT_LEVEL,
                                    Mul(Sub(I(1), AMBIENT_LIGHT_LEVEL),
                                        Pow(Sub(I(1), Div(call.distance,
                                                I(PLAYER_LIGHT_RADIUS))))))))
        /\ \A farther \in Distances :
            Le(call.distance, farther) => Le(wallBrightness(farther), call.wall)

\* a wall inside the light radius, lit between ambient and full
C13_Witness ==
    /\ BrightnessDone
    /\ Gt(call.distance, I(0)) /\ Lt(call.distance, I(PLAYER_LIGHT_RADIUS))
    /\ Lt(AMBIENT_LIGHT_LEVEL, call.wall) /\ Lt(call.wall, I(1))
    /\ \E farther \in Distances :
        /\ Lt(farther, I(PLAYER_LIGHT_RADIUS))
        /\ Lt(wallBrightness(farther), call.wall)

\* C14: the brightness of a wall strip (Ray.renderWallStrip) and the
\* brightness of a sprite (Sprite.draw) are the same function of the
\* distance, for every distance >= 0, 0 and the light radius included
C14_SameBrightness ==
    BrightnessDone => call.wall = call.sprite

\* the two brightnesses at distance 0, where the sprite takes neither branch,
\* both full
C14_Witness ==
    /\ BrightnessDone
    /\ call.distance = I(0)
    /\ call.sprite = I(1) /\ call.wall = I(1)

\* ------------------------------------------------- claims on the wall strips

\* C15: every wall strip drawn has the height
\* (tileSize / correctedDistance) * projectionPlaneDistance, with
\* projectionPlaneDistance = (canvasWidth / 2) / tan(FOV / 2); so for two
\* strips of a frame height * correctedDistance is the same, and a strip with
\* a larger corrected distance never has a larger height
C15_HeightByDistance ==
    /\ \A strip \in wallStrips :
        strip.projectedWallHeight =
            Mul(Div(I(tileSize), strip.correctedDistance),
                Div(Q(canvasWidth, 2), Tan(I(FOV_RADIANS_HALF))))
    /\ \A strip1, strip2 \in wallStrips :
        /\ Mul(strip1.projectedWallHeight, strip1.correctedDistance)
            = Mul(strip2.projectedWallHeight, strip2.correctedDistance)
        /\ Gt(strip1.correctedDistance, strip2.correctedDistance)
            => Le(strip1.projectedWallHeight, strip2.projectedWallHeight)

\* a frame of the 3D view with a strip in every column, two of them of
\* different corrected distances and heights
C15_Witness ==
    /\ Cardinality({strip.screenX : strip \in wallStrips}) = canvasWidth
    /\ \E strip1, strip2 \in wallStrips :
        /\ Gt(strip1.correctedDistance, strip2.correctedDistance)
        /\ Lt(strip1.projectedWallHeight, strip2.projectedWallHeight)

\* C16: for every ray cast, the rays at a multiple of Pi / 2 and the origins
\* on a grid line or a wall face included, no NaN and no infinite value
\* reaches a wall strip: every strip drawn has a finite top and a finite height
C16_StripsFinite ==
    call.op = "renderWallStrip" =>
        \A strip \in call.strips :
            IsFinite(strip.screenY0) /\ IsFinite(strip.projectedWallHeight)

\* the layout is a rectangle of tiles: a row at least, a column at least,
\* and rows of one length
Rectangular(layout) ==
    /\ Len(layout) > 0
    /\ Len(layout[1]) > 0
    /\ \A r \in 1..Len(layout) : Len(layout[r]) = Len(layout[1])

\* C17: constructing a Level from a malformed map (rows of unequal length,
\* zero rows or zero columns) fails at construction with an error: no Level
\* object is produced for such a map
C17_MalformedMapFails ==
    (call.op = "Level" /\ call.done /\ ~Rectangular(call.layout))
        => call.result.error # "none"

\* C18: a ray whose textureId is outside the range of the textures of the
\* atlas draws no wall strip, as for textureId 0
C18_NoStripOutsideAtlas ==
    (call.op = "renderWallStrip" /\ call.ray.textureId \notin 1..AtlasTextures)
        => call.strips = {}

\* ------------------------------------------------------ claims on the ray fan

\* the offsets of the fan start at -FOV / 2 and go up in steps of increment
FanFrom(increment) ==
    /\ Len(rays) = canvasWidth
    /\ rays[1].relativeAngleOffset = I(-FOV_RADIANS_HALF)
    /\ \A i \in 1..(canvasWidth - 1) :
        Sub(rays[i + 1].relativeAngleOffset, rays[i].relativeAngleOffset) = increment

\* C19 as stated: the fan of the player has canvasWidth rays whose offsets
\* are evenly spaced across [-FOV / 2, +FOV / 2]: ray 0 at -FOV / 2, one
\* constant increment between consecutive rays, the last ray at +FOV / 2
C19_FanToHalfFOV ==
    /\ \E increment \in {Div(I(FOV_RADIANS), I(n)) : n \in 1..(2 * canvasWidth)} :
        FanFrom(increment)
    /\ rays[canvasWidth].relativeAngleOffset = I(FOV_RADIANS_HALF)

\* C19, amended: the fan of the player has canvasWidth rays whose offsets go
\* up from -FOV / 2 in steps of FOV / canvasWidth: ray 0 at -FOV / 2, the last
\* ray at +FOV / 2 - FOV / canvasWidth, one increment short of +FOV / 2
C19_FanByIncrement ==
    /\ FanFrom(Div(I(FOV_RADIANS), I(canvasWidth)))
    /\ rays[canvasWidth].relativeAngleOffset =
        Sub(I(FOV_RADIANS_HALF), Div(I(FOV_RADIANS), I(canvasWidth)))

\* the fan as the Player constructor has built it, before any frame
C19_Witness ==
    /\ frames = 0 /\ depthLog = <<>>
    /\ Len(rays) = canvasWidth
    /\ rays[1].relativeAngleOffset = I(-FOV_RADIANS_HALF)
    /\ Lt(rays[canvasWidth].relativeAngleOffset, I(FOV_RADIANS_HALF))
    /\ \A i \in 1..canvasWidth : rays[i].absoluteAngle = normalizeAngle(rays[i].relativeAngleOffset)

\* C20: after the construction of the Player the number of rays stays
\* canvasWidth and no step changes the relativeAngleOffset or the
\* screenColumn of a ray: Player.update, Ray.setAngle, Ray.cast and Ray.draw
\* change the origin, the angles and the results of the cast only
C20_FanFixed ==
    [][ /\ Len(rays) = canvasWidth /\ Len(rays') = canvasWidth
        /\ \A i \in 1..canvasWidth :
            /\ rays'[i].relativeAngleOffset = rays[i].relativeAngleOffset
            /\ rays'[i].screenColumn = rays[i].screenColumn ]_vars

\* the rays after two frames in which the player has moved and turned: their
\* origin, angles and cast results are no longer those of the constructor
C20_Witness ==
    /\ frames = MaxFrames
    /\ \A i \in 1..canvasWidth :
        /\ rays[i].x # TileCentre(1) /\ rays[i].x = player.x
        /\ rays[i].playerAngle # I(0)
        /\ rays[i].absoluteAngle # normalizeAngle(rays[i].relativeAngleOffset)
        /\ rays[i].directDistance # I(0)
        /\ rays[i].screenColumn = i - 1

\* ---------------------------------------------------- claims on the map, cast

\* the operations that are handed a Level
OnLevel == {"hasCollision", "getTileValue", "cast", "renderWallStrip"}

CastDone == call.op = "cast" /\ call.done

\* C22: Ray.cast sets directDistance to the smaller of the distances of the
\* horizontal and the vertical hit (Infinity for a march that left the
\* grid), takes the hit point from the march with the smaller distance, the
\* vertical one on a tie, and sets texturePixelX to the hit x modulo tileSize
\* for a horizontal hit and to the hit y modulo tileSize for a vertical hit;
\* a distance that is NaN is not the smaller one
C22_NearerHit ==
    (CastDone /\ (IsFinite(call.ray.horizontalHitDistance)
                    \/ IsFinite(call.ray.verticalHitDistance))) =>
        /\ call.ray.directDistance
            \in {call.ray.horizontalHitDistance, call.ray.verticalHitDistance}
        /\ IsFinite(call.ray.directDistance)
        /\ ~Lt(call.ray.horizontalHitDistance, call.ray.directDistance)
        /\ ~Lt(call.ray.verticalHitDistance, call.ray.directDistance)
        /\ call.ray.isHorizontal <=>
            Lt(call.ray.horizontalHitDistance, call.ray.verticalHitDistance)
        /\ call.ray.isHorizontal =>
            /\ call.ray.wallHitX = call.ray.horizontalWallHitX
            /\ call.ray.wallHitY = call.ray.horizontalWallHitY
            /\ call.ray.texturePixelX = Rem(call.ray.wallHitX, I(tileSize))
        /\ ~call.ray.isHorizontal =>
            /\ call.ray.wallHitX = call.ray.verticalWallHitX
            /\ call.ray.wallHitY = call.ray.verticalWallHitY
            /\ call.ray.texturePixelX = Rem(call.ray.wallHitY, I(tileSize))

\* a cast with two hits, the horizontal one nearer, off the edge of its tile
C22_Witness ==
    /\ CastDone
    /\ IsFinite(call.ray.horizontalHitDistance)
    /\ IsFinite(call.ray.verticalHitDistance)
    /\ Lt(call.ray.horizontalHitDistance, call.ray.verticalHitDistance)
    /\ call.ray.isHorizontal
    /\ call.ray.texturePixelX # I(0)

\* both marches of the cast left the grid without a wall
NoWallFound ==
    /\ call.op \in {"cast", "renderWallStrip"} /\ call.done
    /\ call.ray.horizontalHitDistance = PosInf
    /\ call.ray.verticalHitDistance = PosInf

\* C23: when neither march of Ray.cast finds a wall inside the grid,
\* directDistance and correctedDistance are both the same large finite
\* sentinel, textureId is 0 and renderWallStrip emits no strip; a strip is
\* emitted only for a textureId other than 0 and a directDistance below the
\* sentinel
C23_SentinelNoStrip ==
    /\ NoWallFound =>
        /\ call.ray.directDistance = I(MAX_SAFE_INTEGER)
        /\ call.ray.correctedDistance = call.ray.directDistance
        /\ IsFinite(call.ray.directDistance)
        /\ call.ray.textureId = 0
        /\ call.op = "renderWallStrip" => call.strips = {}
    /\ (call.op = "renderWallStrip" /\ call.strips # {}) =>
        /\ call.ray.textureId # 0
        /\ Lt(call.ray.directDistance, I(MAX_SAFE_INTEGER))

\* renderWallStrip has run on a ray that found no wall
C23_Witness ==
    /\ NoWallFound
    /\ call.op = "renderWallStrip"
    /\ call.level = Level(GapMap)
    /\ call.strips = {}

\* ------------------------------------------------- claims on Sprite.draw calls

SpriteDrawDone == call.op = "Sprite.draw" /\ call.done

\* heading - atan2(dy, dx) of the call, before it is wrapped
AngleToSprite ==
    Sub(I(call.heading),
        Atan2(Sub(call.y, TileCentre(1)), Sub(call.x, TileCentre(1))))

\* C24: for every heading in [0, 2pi) and every position of the sprite,
\* angleRelativeToPlayerView is heading - atan2(dy, dx) modulo 2pi and lies
\* in [-pi, pi]: the single wrap is enough
C24_WrappedOnce ==
    SpriteDrawDone =>
        /\ Ge(call.sprite.angleRelativeToPlayerView, I(-Pi))
        /\ Le(call.sprite.angleRelativeToPlayerView, I(Pi))
        /\ Rem(Sub(AngleToSprite, call.sprite.angleRelativeToPlayerView), I(TwoPi))
            \in {I(0), Neg(I(0))}

\* a call in which the difference was above pi and has been wrapped
C24_Witness ==
    /\ SpriteDrawDone
    /\ Gt(AngleToSprite, I(Pi))
    /\ call.sprite.angleRelativeToPlayerView = Sub(AngleToSprite, I(TwoPi))

\* distanceToPlayer * cos(angleRelativeToPlayerView) of the call
CorrectedOfCall ==
    Mul(call.sprite.distanceToPlayer, Cos(call.sprite.angleRelativeToPlayerView))

\* C25: a sprite whose corrected distance is 0.1 or less emits no strip at
\* any column, and every sprite that is drawn has a corrected distance
\* above 0.1
C25_NoStripAtEpsilon ==
    SpriteDrawDone =>
        /\ Le(CorrectedOfCall, Q(1, 10)) => (call.strips = {} /\ call.drawn = {})
        /\ \A d \in call.drawn : Gt(d.correctedDistance, Q(1, 10))

\* a sprite in the field of view, in front of the player and nearer than 0.1
C25_Witness ==
    /\ SpriteDrawDone
    /\ Lt(AbsOf(call.sprite.angleRelativeToPlayerView), I(FOV_RADIANS_HALF))
    /\ Gt(CorrectedOfCall, I(0))
    /\ Le(CorrectedOfCall, Q(1, 10))
    /\ call.strips = {}

\* ------------------------------------------------ claims on the sprite pass

\* C27: the sprite pass never writes the depth buffer: in a rendered frame
\* every write is the one of the ray of its column, made before the sprites,
\* and whether a sprite is drawn at a column it covers depends only on the
\* wall distance of the ray of that column, also where another sprite has
\* been drawn at the column before
C27_SpritesLeaveDepth ==
    frames > 0 =>
        /\ \A k \in EventsOf("write") :
            /\ k \in 2..(canvasWidth + 1)
            /\ depthLog[k].by = depthLog[k].column
        /\ \A d \in drawn : \A c \in 0..(canvasWidth - 1) :
            Covers(d, c) =>
                ([sprite |-> d.sprite, column |-> c] \in strips
                    <=> Gt(rays[c + 1].directDistance, d.correctedDistance))

\* a frame in which two sprites are drawn at the same column
C27_Witness ==
    /\ frames > 0
    /\ \E s1 \in strips : \E s2 \in strips :
        s1.column = s2.column /\ s1.sprite # s2.sprite

\* ------------------------------------------------- claims on the rays' anchor

\* C26: whenever rays are cast, every ray's origin is the player's position
\* and its absoluteAngle is normalizeAngle(heading + relativeAngleOffset): in
\* the game as constructed, after every sequence of frames with
\* Player.update, and in the frames in which Player.update is skipped
\* because the player is dead
C26_RaysAnchored ==
    \A i \in 1..canvasWidth :
        /\ rays[i].x = player.x
        /\ rays[i].y = player.y
        /\ rays[i].absoluteAngle =
            normalizeAngle(Add(player.rotationAngle, rays[i].relativeAngleOffset))

\* the player has turned, has died, and frames have been drawn since
C26_Witness ==
    /\ frames = MaxFrames
    /\ player.health = 0
    /\ player.rotationAngle # I(0)
    /\ Len(depthLog) > canvasWidth

\* --------------------------------------------- claims on the start of the game

\* every asset has reported, by its load or by its error event
AllReported == \A a \in Assets : loading.images[a] \in {"complete", "broken"}

\* the context, the level and the player exist and every asset has reported
FrameReady ==
    /\ loading.gameContext
    /\ loading.gameObjects > 0
    /\ loading.assetsLoadedCount >= loading.assetsToLoadCount
    /\ player # null

\* C28: a frame is fully computed or fully skipped: mainGameLoop run while
\* the context or the level is missing, an asset has not reported or the
\* player does not exist returns and changes nothing (no update, no reset or
\* write of the depth buffer, no ray, no sprite); otherwise it updates the
\* player, resets the depth buffer, casts every ray from the updated player
\* and only then draws the sprites
C28_FrameWholeOrSkipped ==
    [][ /\ call'.op = "mainGameLoop" => (~FrameReady /\ UNCHANGED gameVars)
        /\ frames' # frames =>
            /\ FrameReady
            /\ frames' = frames + 1
            /\ player.health > 0 =>
                player'.rotationAngle =
                    normalizeAngle(Add(player.rotationAngle,
                                       Mul(I(player.rotationInput), I(rotationSpeed))))
            /\ depthLog'[1].op = "fill"
            /\ \A c \in 1..canvasWidth :
                /\ depthLog'[c + 1].op = "write"
                /\ depthLog'[c + 1].column = c - 1
                /\ rays'[c].x = player'.x /\ rays'[c].y = player'.y
                /\ zBuffer'[c] = rays'[c].directDistance
            /\ \A k \in (canvasWidth + 2)..Len(depthLog') : depthLog'[k].op = "read"
      ]_vars

\* mainGameLoop has returned early, some asset not having reported
C28_Witness ==
    /\ call.op = "mainGameLoop"
    /\ loading.gameContext
    /\ loading.assetsLoadedCount < loading.assetsToLoadCount
    /\ loading.assetsLoadedCount > 0
    /\ player = null

\* C29: for one call of initializeGame, in whatever order the load and
\* error callbacks of the assets arrive, initializeGameObjects runs exactly
\* once and only after every asset has reported, exactly one interval timer
\* of mainGameLoop is started, and no frame is drawn before
C29_InitializedOnce ==
    /\ loading.gameObjects <= 1
    /\ loading.intervals = loading.gameObjects
    /\ loading.gameObjects = 1 <=> AllReported
    /\ player # null <=> AllReported
    /\ frames > 0 => AllReported

\* every asset has reported, one with an error and one without, the game
\* objects exist and a frame has been drawn
C29_Witness ==
    /\ AllReported
    /\ \E a \in Assets : loading.images[a] = "broken"
    /\ \E a \in Assets : loading.images[a] = "complete"
    /\ loading.gameObjects = 1 /\ loading.intervals = 1
    /\ frames > 0

\* C30: once every asset has reported, loaded or failed, initializeStaticSprites
\* and initializeEnemies stop rescheduling themselves with setTimeout: from
\* then on a moment comes at which no timeout is pending
C30_InitializationEnds == AllReported ~> (loading.timeouts = {})

\* ------------------------------------------------- claims on Player.update

\* Player.update has been called
UpdateDone == call.op = "Player.update" /\ call.calls > 0

\* the position (x, y) is in a tile of the level that holds 0
OnOpenTile(level, x, y) ==
    /\ InBounds(level, Floor(Div(x, I(tileSize))), Floor(Div(y, I(tileSize))))
    /\ MapAt(level, Floor(Div(x, I(tileSize))), Floor(Div(y, I(tileSize)))) = 0

\* the position the player p moves to when nothing is in the way
MoveTarget(p) ==
    << Add(p.x, Mul(Mul(I(p.movementInput), Cos(p.rotationAngle)), I(movementSpeed))),
       Add(p.y, Mul(Mul(I(p.movementInput), Sin(p.rotationAngle)), I(movementSpeed))) >>

\* C33: a player in an open tile of the map is in an open tile of the map
\* after every Player.update, whatever the inputs: the player is moved to
\* the target position when that is in an open tile and stays where it was
\* when the target is in a wall or outside the map, and the heading is
\* turned by the rotation input in both cases
C33_StaysInOpenTile ==
    UpdateDone =>
        /\ OnOpenTile(call.level, call.before.player.x, call.before.player.y)
        /\ OnOpenTile(call.level, call.after.player.x, call.after.player.y)
        /\ <<call.after.player.x, call.after.player.y>> =
            IF OnOpenTile(call.level, MoveTarget(call.before.player)[1],
                          MoveTarget(call.before.player)[2])
            THEN MoveTarget(call.before.player)
            ELSE <<call.before.player.x, call.before.player.y>>
        /\ call.after.player.rotationAngle =
            normalizeAngle(Add(call.before.player.rotationAngle,
                               Mul(I(call.rotationInput), I(rotationSpeed))))

\* the second update of a sequence was a move into a wall with a turn: the
\* position is as before and the heading is not
C33_Witness ==
    /\ UpdateDone /\ call.calls = UpdateCalls
    /\ call.movementInput # 0 /\ call.rotationInput # 0
    /\ ~OnOpenTile(call.level, MoveTarget(call.before.player)[1],
                   MoveTarget(call.before.player)[2])
    /\ call.after.player.x = call.before.player.x
    /\ call.after.player.y = call.before.player.y
    /\ call.after.player.rotationAngle # call.before.player.rotationAngle

\* the sprite i of the call is visible, of a type, and within tileSize / 2
\* of the player after the move
InReach(i) ==
    /\ call.before.sprites[i].visible
    /\ call.before.sprites[i].type # "none"
    /\ Lt(distanceBetweenPoints(call.after.player.x, call.after.player.y,
                                call.before.sprites[i].x, call.before.sprites[i].y),
          Q(tileSize, 2))

\* C39: the pickup of Player.update: a visible ammo pack within the radius
\* adds 10 ammo and becomes invisible; a visible health pack within the
\* radius becomes invisible and adds 25 health, capped at 100, when the
\* health is below 100, and stays visible with nothing changed when the
\* health is 100; a sprite that is invisible or out of reach is left as it
\* is, so that a pack is consumed once at most
C39_Pickup ==
    UpdateDone =>
        /\ \A i \in 1..Len(call.before.sprites) :
            LET b == call.before.sprites[i]
                a == call.after.sprites[i]
            IN  /\ (InReach(i) /\ b.type = "ammo") => ~a.visible
                /\ (InReach(i) /\ b.type = "health" /\ call.before.player.health < 100)
                        => ~a.visible
                /\ (InReach(i) /\ b.type = "health" /\ call.before.player.health = 100)
                        => a = b
                /\ ~InReach(i) => a = b
                /\ ~b.visible => ~a.visible
        /\ call.after.player.ammo = call.before.player.ammo +
                10 * Cardinality({i \in 1..Len(call.before.sprites) :
                                    InReach(i) /\ call.before.sprites[i].type = "ammo"})
        /\ call.after.player.health =
            IF \E i \in 1..Len(call.before.sprites) :
                    /\ InReach(i) /\ call.before.sprites[i].type = "health"
                    /\ call.before.player.health < 100
            THEN (IF call.before.player.health + 25 > 100 THEN 100
                  ELSE call.before.player.health + 25)
            ELSE call.before.player.health

\* a health pack has been consumed at health 80, which made it 100, and the
\* ammo pack had been consumed by the update before and is not consumed again
C39_Witness ==
    /\ UpdateDone /\ call.calls = UpdateCalls
    /\ call.before.player.health = 80 /\ call.after.player.health = 100
    /\ \E i \in 1..Len(call.before.sprites) :
        /\ call.before.sprites[i].type = "health"
        /\ call.before.sprites[i].visible /\ ~call.after.sprites[i].visible
    /\ \E i \in 1..Len(call.before.sprites) :
        /\ call.before.sprites[i].type = "ammo"
        /\ ~call.before.sprites[i].visible
    /\ call.after.player.ammo = 20

\* ------------------------------------------------------- claims on the fight

\* the ids of the sprites in the list sprites
spriteIds == { sprites[i].id : i \in 1..Len(sprites) }

\* the projectiles in the two lists of the game
projectilesListed ==
    { playerProjectiles[k] : k \in 1..Len(playerProjectiles) }
    \cup { enemyProjectiles[k] : k \in 1..Len(enemyProjectiles) }

\* the sprites of the projectiles that deactivate() was called on
projectilesDeactivated ==
    { d.sprite : d \in { e \in deactivated : e.of \in {"playerProjectiles", "enemyProjectiles"} } }

\* C31: between the updates of a frame and its drawing, as in every other
\* state between two handlers, every projectile of playerProjectiles and
\* enemyProjectiles is active and has its sprite in sprites, and no sprite
\* of a deactivated projectile is in sprites, nor is a deactivated
\* projectile in a list, where alone it could be active again
C31_ProjectilesListedAreActive ==
    /\ \A q \in projectilesListed : q.isActive /\ q.sprite \in spriteIds
    /\ \A s \in projectilesDeactivated :
        /\ s \notin spriteIds
        /\ \A q \in projectilesListed : q.sprite # s

\* a frame has deactivated a projectile while another is in the air
C31_Witness ==
    /\ frames > 0
    /\ projectilesDeactivated # {}
    /\ projectilesListed # {}

\* the damage events from the event n of the history on
laterDamage(log, n) == { log[j] : j \in (n + 1)..Len(log) }

\* the hits of enemies in the history
enemyHits(log) == { j \in 1..Len(log) : log[j].on # 0 }

\* the place of a projectile after the step of its next update
nextPlace(q) == <<Add(q.x, Mul(Cos(q.angle), q.speed)), Add(q.y, Mul(Sin(q.angle), q.speed))>>

\* the next update of the projectile ends in a wall or off the map
MeetsWall(q) ==
    \/ tileBlocked(nextPlace(q)[1], nextPlace(q)[2])
    \/ outOfBounds(nextPlace(q)[1], nextPlace(q)[2])

\* no two damage events are by the same projectile, the projectile of an
\* event on an enemy is a player projectile deactivated and that of an event
\* on the player an enemy projectile deactivated, and the score is 5 for
\* every hit of an enemy
OneDamageEvent ==
    /\ \A i, j \in 1..Len(damageLog) : damageLog[i].by = damageLog[j].by => i = j
    /\ \A i \in 1..Len(damageLog) :
        /\ [sprite |-> damageLog[i].by,
            of |-> IF damageLog[i].on = 0 THEN "enemyProjectiles" ELSE "playerProjectiles"]
                \in deactivated
        /\ damageLog[i].after < damageLog[i].before
    /\ player.score = 5 * Cardinality(enemyHits(damageLog))

\* the damage events of a step are by projectiles not deactivated before,
\* and by none that meets a wall or the edge of the map with the step of
\* its update
WallEndsProjectile ==
    [][\A e \in laterDamage(damageLog', Len(damageLog)) :
        /\ e.by \notin projectilesDeactivated
        /\ \A q \in projectilesListed : MeetsWall(q) => e.by # q.sprite]_vars

\* C32: a projectile does damage once at most in its lifetime: a player
\* projectile to one enemy, with 5 added to the score for the hit, an
\* enemy projectile to the player; a projectile that a wall or the edge of
\* the map deactivates in an update does no damage in that update, and none
\* does after its deactivation
C32_OneDamagePerProjectile == []OneDamageEvent /\ WallEndsProjectile

\* a player projectile that had both enemies in reach has hit the first,
\* the second is unhurt, and an enemy projectile has hit the player
C32_Witness ==
    /\ \E i, j \in 1..Len(damageLog) : damageLog[i].on = 0 /\ damageLog[j].on = 3
    /\ Len(enemies) = 2
    /\ enemies[2].health = 100
    /\ player.score = 5

\* a projectile has ended in the west wall with no damage done
EndedInWall ==
    /\ projectilesDeactivated # {}
    /\ damageLog = <<>>
    /\ playerProjectiles = <<>>
    /\ enemyProjectiles = <<>>

\* the step fires a player projectile: a projectile with a new sprite is in
\* playerProjectiles
Shoots ==
    \E k \in 1..Len(playerProjectiles') : playerProjectiles'[k].sprite > spawned

\* the health of the player within 0 and 100, the ammo not negative
HealthAndAmmoInRange ==
    /\ player.health >= 0
    /\ player.health <= 100
    /\ player.ammo >= 0

\* a step that fires finds ammo and takes 1 of it, and no other step takes
\* any
ShotTakesOneAmmo ==
    [][/\ Shoots => player.ammo > 0 /\ player'.ammo = player.ammo - 1
       /\ player'.ammo < player.ammo => Shoots]_vars

\* C34: whatever damage, pickups and shots there have been, the health of
\* the player is within 0 and 100 and the ammo is 0 at least; a shot is
\* fired only with ammo above 0 and takes exactly 1 of it
C34_HealthAndAmmoBounded == []HealthAndAmmoInRange /\ ShotTakesOneAmmo

\* the last shot has been fired and a hit of 2 on a player with health 1
\* has left the health at 0
C34_Witness ==
    /\ player.health = 0
    /\ player.ammo = 0
    /\ \E i \in 1..Len(damageLog) : damageLog[i].on = 0 /\ damageLog[i].before = 1

\* the health pack has been taken by a player hurt before, the health is
\* capped at 100
CappedInFight ==
    /\ player.health = 100
    /\ \E i \in 1..Len(sprites) : sprites[i].type = "health" /\ ~sprites[i].visible

\* C35: the death of the player is for good: from a state with the health
\* at 0, no key event, tick of the shooting timer or frame, with the enemy
\* projectiles it moves, changes the health, the position, the heading or
\* the ammo of the player, and none fires a player projectile
C35_DeathAbsorbing ==
    [][player.health = 0 =>
        /\ player'.health = 0
        /\ player'.x = player.x
        /\ player'.y = player.y
        /\ player'.rotationAngle = player.rotationAngle
        /\ player'.ammo = player.ammo
        /\ ~Shoots]_vars

\* the player has died walking and turning with the space bar down, with
\* ammo left, and frames have run since with enemy projectiles in the air
C35_Witness ==
    /\ player.health = 0
    /\ player.movementInput = 1
    /\ player.rotationInput = 1
    /\ player.ammo > 0
    /\ shootTimers # {}
    /\ enemyProjectiles # <<>>
    /\ frames = FightFrames

\* the enemies alive
enemiesAlive == { i \in 1..Len(enemies) : enemies[i].isAlive }

\* every enemy is alive exactly with health above 0, and its health is
\* within 0 and 100
AliveWithHealth ==
    \A i \in 1..Len(enemies) :
        /\ enemies[i].isAlive <=> enemies[i].health > 0
        /\ enemies[i].health >= 0
        /\ enemies[i].health <= 100

\* a step leaves every dead enemy as it is, with its place, its state and
\* its health; its damage events on enemies are on enemies that were alive,
\* so that only they yield score; and a frame spawns no more projectiles
\* than there are enemies alive to fire them
DeadEnemiesRest ==
    [][/\ Len(enemies') = Len(enemies)
       /\ \A i \in 1..Len(enemies) : ~enemies[i].isAlive => enemies'[i] = enemies[i]
       /\ \A e \in laterDamage(damageLog', Len(damageLog)) :
            e.on # 0 => \E i \in enemiesAlive : enemies[i].sprite = e.on
       /\ player'.score > player.score =>
            \E e \in laterDamage(damageLog', Len(damageLog)) : e.on # 0
       /\ frames' # frames => spawned' - spawned <= Cardinality(enemiesAlive)]_vars

\* C36: an enemy is alive exactly when its health is above 0, and its
\* health is within 0 and 100; a dead enemy never moves, never changes its
\* state, never fires a projectile, takes no damage and yields no score
C36_DeadEnemiesStayDead == []AliveWithHealth /\ DeadEnemiesRest

\* the first enemy is dead, and a later shot, fired with the dead enemy in
\* its reach, has hit the second enemy, which has fired since
C36_Witness ==
    /\ Len(enemies) = 2
    /\ ~enemies[1].isAlive
    /\ enemies[1].health = 0
    /\ \E i, j \in 1..Len(damageLog) :
        i < j /\ damageLog[i].on = enemies[1].sprite /\ damageLog[j].on = enemies[2].sprite
    /\ enemies[2].lastAttackTime = 1
    /\ frames = FightFrames

\* the deaths of enemies in the history: the damage events on an enemy that
\* leave its health at 0
enemyDeaths == { j \in 1..Len(damageLog) : damageLog[j].on # 0 /\ damageLog[j].after = 0 }

\* the rising effects that the main loop has or has had in its list
effectsRegistered ==
    { risingSpriteEffects[k].sprite : k \in 1..Len(risingSpriteEffects) }
    \cup { d.sprite : d \in { e \in deactivated : e.of = "risingSpriteEffects" } }

\* C37: with the images loaded, the death of an enemy creates a rising
\* effect that is registered in risingSpriteEffects, the list the main loop
\* updates: there are as many effects, in the list or deactivated from it,
\* as enemies have died
C37_DeathRaisesAngel == Cardinality(effectsRegistered) >= Cardinality(enemyDeaths)

\* the timer recorded in playerShootInterval is the only one running, and
\* with none recorded none is running
OneShootingTimer ==
    /\ Cardinality(shootTimers) <= 1
    /\ shootTimers = IF playerShootInterval = 0 THEN {} ELSE {playerShootInterval}

\* a step starts a timer only when none is recorded, and a step that clears
\* the record clears the timer it recorded
TimerStartsUnrecorded ==
    [][/\ shootTimers' \ shootTimers # {} => playerShootInterval = 0
       /\ playerShootInterval' = 0 => shootTimers' = shootTimers \ {playerShootInterval}]_vars

\* C38: one shooting timer of the player exists at most, whatever the order
\* of the keydown events of the space bar with their repeats, the keyup
\* events and the ticks: startPlayerShooting starts a timer only when none
\* is recorded, stopPlayerShooting clears the timer recorded and resets the
\* record
C38_OneShootingTimer == []OneShootingTimer /\ TimerStartsUnrecorded

\* the space bar is down with its timer running, two shots have been fired
\* and have hit, and frames have run
C38_Witness ==
    /\ playerShootInterval # 0
    /\ shootTimers = {playerShootInterval}
    /\ Cardinality(enemyHits(damageLog)) = 2
    /\ frames >= 2

====
